---------------------------- MODULE Spec2Model ----------------------------
(***************************************************************************)
(* Model of the order-ingestion pipeline of quicksales-desktop             *)
(* (src-tauri): the tauri commands save_order, save_customer,              *)
(* merge_customers, delete_customer, batch_delete_customers,               *)
(* get_all_customers, search_customers and save_settings, and the          *)
(* repository methods they call, over one SQLite connection behind         *)
(* Arc<Mutex<Connection>>.                                                 *)
(*                                                                         *)
(* Every repository method takes the mutex, runs its statements and drops  *)
(* the mutex when it returns, so one repository call is one atomic step    *)
(* and a command is a sequence of such steps; commands invoked             *)
(* concurrently interleave between steps.  The connection is in autocommit *)
(* mode (no command of the pipeline opens a transaction), so every         *)
(* statement that succeeded stays applied when a later one fails.          *)
(*                                                                         *)
(* Strings are sequences of one-character strings.  Timestamps             *)
(* (Utc::now().to_rfc3339()) are readings of a logical clock; they compare *)
(* as the RFC 3339 texts of UTC instants do.                               *)
(***************************************************************************)
EXTENDS Integers, Sequences, FiniteSets, TLC

\* Option<T>: None, or Some(v) holding one value
None == <<>>
Some(v) == <<v>>
IsSome(opt) == opt # <<>>
Unwrap(opt) == opt[1]

-----------------------------------------------------------------------------
(* Text helpers *)

Digits == {"0", "1", "2", "3", "4", "5", "6", "7", "8", "9"}

DigitVal(c) ==
    CASE c = "0" -> 0 [] c = "1" -> 1 [] c = "2" -> 2 [] c = "3" -> 3
      [] c = "4" -> 4 [] c = "5" -> 5 [] c = "6" -> 6 [] c = "7" -> 7
      [] c = "8" -> 8 [] c = "9" -> 9

DigitChar(d) ==
    CASE d = 0 -> "0" [] d = 1 -> "1" [] d = 2 -> "2" [] d = 3 -> "3"
      [] d = 4 -> "4" [] d = 5 -> "5" [] d = 6 -> "6" [] d = 7 -> "7"
      [] d = 8 -> "8" [] d = 9 -> "9"

\* A natural number of any size is held as its decimal digits, most
\* significant first, without leading zeros (zero is <<0>>): u32 values do not
\* fit the model checker's integers.
StripZeros(ds) ==
    LET nz == {i \in 1..Len(ds) : ds[i] # 0}
    IN IF nz = {} THEN <<0>>
       ELSE LET f == CHOOSE i \in nz : \A j \in nz : i <= j
            IN SubSeq(ds, f, Len(ds))

\* a <= b for two naturals held as stripped digit sequences
NumLeq(a, b) ==
    \/ Len(a) < Len(b)
    \/ /\ Len(a) = Len(b)
       /\ \/ a = b
          \/ \E i \in 1..Len(a) :
                /\ a[i] < b[i]
                /\ \A j \in 1..(i-1) : a[j] = b[j]

\* a + 1 on digit sequences
NumInc(a) ==
    LET n == Len(a)
        nn == {i \in 1..n : a[i] # 9}
    IN IF nn = {} THEN <<1>> \o [i \in 1..n |-> 0]
       ELSE LET k == CHOOSE i \in nn : \A j \in nn : j <= i
            IN [i \in 1..n |-> IF i < k THEN a[i] ELSE IF i = k THEN a[i] + 1 ELSE 0]

\* u32::MAX, the largest value str::parse::<u32> accepts
U32Max == <<4, 2, 9, 4, 9, 6, 7, 2, 9, 5>>

\* m.as_str().parse::<u32>().ok() on a run of ASCII digits: Some(value), or
\* None when the value does not fit u32
ParseU32(run) ==
    LET v == StripZeros([i \in 1..Len(run) |-> DigitVal(run[i])])
    IN IF NumLeq(v, U32Max) THEN Some(v) ELSE None

\* regex (\d+) find_iter: the maximal digit runs of s, left to right, each as
\* its <<first, last>> positions
DigitRuns(s) ==
    LET starts == {i \in 1..Len(s) :
                      s[i] \in Digits /\ (i = 1 \/ s[i-1] \notin Digits)}
        EndOf(i) == CHOOSE j \in i..Len(s) :
                      /\ \A k \in i..j : s[k] \in Digits
                      /\ (j = Len(s) \/ s[j+1] \notin Digits)
        Nth[n \in 1..Cardinality(starts)] ==
            CHOOSE i \in starts : Cardinality({x \in starts : x < i}) = n - 1
    IN [n \in 1..Cardinality(starts) |-> <<Nth[n], EndOf(Nth[n])>>]

\* format!("{:0width$}", v): zero-padded on the left to width, never cut
ZeroPad(v, width) ==
    LET txt == [i \in 1..Len(v) |-> DigitChar(v[i])]
    IN IF Len(txt) >= width THEN txt
       ELSE [i \in 1..(width - Len(txt)) |-> "0"] \o txt

-----------------------------------------------------------------------------
(* Bounds of the model *)

\* the last reading of the logical clock
MaxNow == 2
\* clock readings per calendar day
DayLen == 2
\* commands invoked in one behaviour of Spec, of RaceSpec, of OrderSpec and of
\* NumberSpec
MaxCalls == 3
MaxRaceCalls == 3
MaxOrderCalls == 2
MaxNumberCalls == 3
\* commands invoked in one behaviour of DupSpec
MaxDupCalls == 2
\* commands invoked in one behaviour of ManageSpec
MaxManageCalls == 3
\* commands invoked in one behaviour of ListSpec
MaxListCalls == 3

\* chrono's now.format("%Y-%m-%d"): the calendar day of a clock reading.  Day d
\* of the model is 2024-01-(d+1); an order's date column holds such a day.
Today(t) == t \div DayLen

-----------------------------------------------------------------------------
(* Order-number patterns: AppSettings.order_number_format *)

\* The pattern text is held as its pieces: a literal character, a date
\* variable ({YYYY} {YY} {MM} {DD} {M} {D}) or a sequence variable ({SEQ} when
\* w = -1, {SEQ:w} otherwise).
Lit(ch) == [k |-> "lit", c |-> ch, w |-> -1]
Tok(name) == [k |-> name, c |-> "", w |-> -1]
SeqTok(width) == [k |-> "SEQ", c |-> "", w |-> width]

\* result.replace("{YYYY}", now.format("%Y")) ... replace("{D}", now.format("%-d"))
DateText(k, t) ==
    LET dd == Today(t) + 1
    IN CASE k = "YYYY" -> <<"2", "0", "2", "4">>
         [] k = "YY" -> <<"2", "4">>
         [] k = "MM" -> <<"0", "1">>
         [] k = "M" -> <<"1">>
         [] k = "DD" -> <<DigitChar(dd \div 10), DigitChar(dd % 10)>>
         [] k = "D" -> IF dd < 10 THEN <<DigitChar(dd)>>
                       ELSE <<DigitChar(dd \div 10), DigitChar(dd % 10)>>

ReplaceDates(format, t) ==
    [i \in 1..Len(format) |->
        IF format[i].k \in {"lit", "SEQ"} THEN format[i]
        ELSE [k |-> "text", c |-> DateText(format[i].k, t), w |-> -1]]

RECURSIVE PiecesText(_)
PiecesText(ps) ==
    IF ps = <<>> THEN <<>>
    ELSE LET h == Head(ps)
         IN (CASE h.k = "lit" -> <<h.c>>
               [] h.k = "text" -> h.c
               [] h.k = "SEQ" ->
                    IF h.w = -1 THEN <<"{", "S", "E", "Q", "}">>
                    ELSE <<"{", "S", "E", "Q", ":">> \o ZeroPad(<<h.w>>, 1) \o <<"}">>)
            \o PiecesText(Tail(ps))

\* the "last order number" query without its WHERE date = ?1
LastNumbersAnyDay(ords, reset_daily, t) ==
    IF DOMAIN ords = {} THEN {None}
    ELSE {Some(ords[o].order_number) :
            o \in {x \in DOMAIN ords :
                      \A y \in DOMAIN ords : ords[y].created_at <= ords[x].created_at}}

\* Step 3 of generate_order_number: the rows the "last order number" query can
\* return.  ORDER BY created_at DESC LIMIT 1 returns a row of the greatest
\* created_at; among rows of equal created_at SQLite returns any one.
LastNumbers(ords, reset_daily, t) ==
    LET window == IF reset_daily
                  THEN {o \in DOMAIN ords : ords[o].date = Today(t)}
                  ELSE DOMAIN ords
        latest == {o \in window : \A x \in window : ords[x].created_at <= ords[o].created_at}
    IN IF window = {} THEN {None}
       ELSE {Some(ords[o].order_number) : o \in latest}

\* numbers: the digit runs of last_num that parse as u32, in order
\* (find_iter, then filter_map over parse::<u32>().ok())
ParsedRuns(last_num) ==
    LET runs == DigitRuns(last_num)
        vals == [n \in 1..Len(runs) |-> ParseU32(SubSeq(last_num, runs[n][1], runs[n][2]))]
        kept == SelectSeq(vals, IsSome)
    IN [n \in 1..Len(kept) |-> Unwrap(kept[n])]

\* Step 4: last_seq + 1 in u32.  None stands for u32::MAX + 1, which panics
\* where overflow checks are compiled in and wraps to 0 where not.
NextSeq(last_number) ==
    IF ~IsSome(last_number) THEN Some(<<1>>)
    ELSE LET numbers == ParsedRuns(Unwrap(last_number))
         IN IF numbers = <<>> THEN Some(<<1>>)
            ELSE IF numbers[Len(numbers)] = U32Max THEN None
            ELSE Some(NumInc(numbers[Len(numbers)]))

\* Steps 2 and 5: the first sequence variable of the pattern decides the width,
\* and every occurrence of that same variable is replaced by the padded number.
ExpandSeq(pieces, digits, next_seq) ==
    LET at == {i \in 1..Len(pieces) : pieces[i].k = "SEQ"}
        caps == pieces[CHOOSE i \in at : \A j \in at : i <= j]
        seq_len == IF caps.w = -1 THEN digits ELSE caps.w
        seq_str == ZeroPad(next_seq, seq_len)
    IN PiecesText([i \in 1..Len(pieces) |->
                      IF pieces[i] = caps
                      THEN [k |-> "text", c |-> seq_str, w |-> -1]
                      ELSE pieces[i]])

HasSeq(format) == \E i \in 1..Len(format) : format[i].k = "SEQ"

\* OrderRepository::generate_order_number: the outcomes it can have for the
\* stored orders ords at clock reading t.  An outcome is the returned text, or a
\* panic (the overflow of last_seq + 1 in a build with overflow checks).
\* Beside the text an outcome names the last_number the query returned and the
\* next_seq computed from it (both None when the pattern has no sequence
\* variable and the query is not made).
GenOutcome(panic, number, last_number, next_seq) ==
    [panic |-> panic, number |-> number, last_number |-> last_number,
     next_seq |-> next_seq]

GenerateOrderNumber(st, ords, t) ==
    LET result == ReplaceDates(st.order_number_format, t)
    IN IF ~HasSeq(st.order_number_format)
       THEN {GenOutcome(FALSE, PiecesText(result), None, None)}
       ELSE UNION {
              LET next_seq == NextSeq(ln)
              IN IF ~IsSome(next_seq)
                 THEN {GenOutcome(TRUE, <<>>, ln, None),
                       GenOutcome(FALSE, ExpandSeq(result, st.order_number_digits, <<0>>),
                                  ln, Some(<<0>>))}
                 ELSE {GenOutcome(FALSE,
                                  ExpandSeq(result, st.order_number_digits, Unwrap(next_seq)),
                                  ln, next_seq)}
              : ln \in LastNumbers(ords, st.order_number_reset_daily, t)}

-----------------------------------------------------------------------------
(* Identifiers *)

\* An id is the sequence of its parts: <<"c1">>, <<"temp_", "1">>,
\* <<"deleted_", "c1">>.  format!("deleted_{}", id) puts a part in front and
\* starts_with looks at the first part.
StartsWith(id, prefix) == Len(id) > 0 /\ id[1] = prefix
\* format!("order_customer_{}", order.id)
SnapshotId(order_id) == <<"order_customer_">> \o order_id
\* format!("deleted_{}", original_customer_id)
PlaceholderId(customer_id) == <<"deleted_">> \o customer_id

\* The text of an id: the characters of its parts.
Chars(part) ==
    CASE part = "temp_" -> <<"t", "e", "m", "p", "_">>
      [] part = "deleted_" -> <<"d", "e", "l", "e", "t", "e", "d", "_">>
      [] part = "order_customer_" ->
            <<"o", "r", "d", "e", "r", "_", "c", "u", "s", "t", "o", "m", "e", "r", "_">>
      [] part = "c1" -> <<"c", "1">>
      [] part = "c2" -> <<"c", "2">>
      [] part = "c3" -> <<"c", "3">>
      [] part = "c4" -> <<"c", "4">>
      [] part = "c9" -> <<"c", "9">>
      [] part = "o1" -> <<"o", "1">>
      [] part = "o2" -> <<"o", "2">>
      [] part = "temple1" -> <<"t", "e", "m", "p", "l", "e", "1">>
      [] part = "deleted-7" -> <<"d", "e", "l", "e", "t", "e", "d", "-", "7">>
      [] OTHER -> <<part>>
RECURSIVE IdText(_)
IdText(id) == IF id = <<>> THEN <<>> ELSE Chars(Head(id)) \o IdText(Tail(id))

\* SQLite's LIKE: % stands for any text, _ for any one character, and ASCII
\* letters match whatever their case
UpperCase == <<"A", "B", "C", "D", "E", "F", "G", "H", "I", "J", "K", "L", "M",
               "N", "O", "P", "Q", "R", "S", "T", "U", "V", "W", "X", "Y", "Z">>
LowerCase == <<"a", "b", "c", "d", "e", "f", "g", "h", "i", "j", "k", "l", "m",
               "n", "o", "p", "q", "r", "s", "t", "u", "v", "w", "x", "y", "z">>
Fold(c) ==
    IF \E i \in 1..26 : UpperCase[i] = c
    THEN LowerCase[CHOOSE i \in 1..26 : UpperCase[i] = c]
    ELSE c
RECURSIVE Like(_, _)
Like(text, pattern) ==
    IF pattern = <<>> THEN text = <<>>
    ELSE IF Head(pattern) = "%"
    THEN \E k \in 0..Len(text) : Like(SubSeq(text, k + 1, Len(text)), Tail(pattern))
    ELSE IF text = <<>> THEN FALSE
    ELSE IF Head(pattern) = "_" THEN Like(Tail(text), Tail(pattern))
    ELSE Fold(Head(text)) = Fold(Head(pattern)) /\ Like(Tail(text), Tail(pattern))

\* a table with row r stored under key k, and a table without key k
Put(table, k, r) == (k :> r) @@ table
Drop(table, keys) == [k \in (DOMAIN table) \ keys |-> table[k]]

-----------------------------------------------------------------------------
(* State *)

VARIABLES
    customers,     \* table customers: id -> row
    orders,        \* table orders: id -> row
    order_items,   \* table order_items: <<order_id, product_id>> -> row
    products,      \* table products: id -> row
    settings,      \* the app_settings row
    foreign_keys,  \* whether the SQLite build enforces foreign keys
    unit_presets,  \* table unit_presets: id -> row
    remark_presets,\* table remark_presets: id -> row
    mutex,         \* the Mutex of DbConnection: its holders, each with the position it locked at
    poisoned,      \* whether a command panicked while it held the mutex
    now,           \* the clock Utc::now() reads
    procs,         \* the command each invocation slot is running, with its locals
    calls,         \* commands invoked so far
    deducted,      \* history: per order id, the save_order calls that deducted stock
    last_gen       \* history: the latest call of generate_order_number

db == <<customers, orders, order_items, products, settings>>
hist == <<deducted, last_gen>>
presets == <<unit_presets, remark_presets>>
vars == <<customers, orders, order_items, products, settings, foreign_keys,
          unit_presets, remark_presets, mutex, poisoned, now, procs, calls,
          deducted, last_gen>>

Procs == {"t1", "t2"}
OrderIds == {<<"o1">>, <<"o2">>}

Idle == [pc |-> "idle"]
\* a command that returned: Result<_, String>
Done(cmd, arg, ok, value) ==
    [pc |-> "done", cmd |-> cmd, arg |-> arg, ok |-> ok, value |-> value]
\* a command whose thread panicked (lock().unwrap() on a poisoned mutex, or an
\* arithmetic overflow): the caller gets no result
Panicked(cmd, arg) ==
    [pc |-> "done", cmd |-> cmd, arg |-> arg, ok |-> FALSE, value |-> <<"panic">>]

Running(p) == procs[p].pc \notin {"idle", "done"}

\* the frontend invokes a command on slot p; cap bounds the invocations
Invoke(p, cap) ==
    /\ procs[p].pc = "idle"
    /\ calls < cap
    /\ ~poisoned
    /\ calls' = calls + 1

\* history: the customers and orders tables as a command found them when it
\* was invoked
Before == [customers |-> customers, orders |-> orders]

-----------------------------------------------------------------------------
(* Repository statements *)

\* CustomerRepository::get_by_id(id).is_ok()
CustomerExists(id) == id \in DOMAIN customers

\* CustomerRepository::insert: fails on the primary key
CustomerInsertOk(c) == c.id \notin DOMAIN customers
CustomerRow(c) ==
    [name |-> c.name, phone |-> c.phone, license_plate |-> c.license_plate,
     address |-> c.address, last_purchase_at |-> c.last_purchase_at,
     created_at |-> c.created_at, updated_at |-> c.updated_at]
CustomerInsert(custs, c) == Put(custs, c.id, CustomerRow(c))

\* CustomerRepository::update:
\*   UPDATE customers SET name, phone, license_plate, address, updated_at WHERE id
CustomerUpdate(custs, c) ==
    IF c.id \in DOMAIN custs
    THEN [custs EXCEPT ![c.id] =
            [@ EXCEPT !.name = c.name, !.phone = c.phone,
                      !.license_plate = c.license_plate, !.address = c.address,
                      !.updated_at = c.updated_at]]
    ELSE custs

\* the FOREIGN KEY (customer_id) REFERENCES customers(id) of orders, when enforced
CustomerFkOk(custs, customer_id) == ~foreign_keys \/ customer_id \in DOMAIN custs

\* order_number TEXT UNIQUE NOT NULL
OrderNumberFree(ords, id, number) ==
    \A o \in DOMAIN ords : o # id => ords[o].order_number # number

OrderRow(o) ==
    [order_number |-> o.order_number, date |-> o.date,
     customer_id |-> o.customer_id, created_at |-> o.created_at]

\* OrderRepository::insert: the INSERT INTO orders, then one INSERT INTO
\* order_items per item, each its own autocommitted statement; the first
\* failing statement ends the call and what was inserted before it stays.
\* The items' primary key is format!("{}_{}", order.id, item.id).
\* an orders table without the UNIQUE on order_number
OrderInsertRowOkAnyNumber(o) ==
    /\ o.id \notin DOMAIN orders
    /\ CustomerFkOk(customers, o.customer_id)

OrderInsertRowOk(o) ==
    /\ o.id \notin DOMAIN orders
    /\ OrderNumberFree(orders, o.id, o.order_number)
    /\ CustomerFkOk(customers, o.customer_id)

RECURSIVE InsertItems(_, _, _, _)
\* the order_items table and the success of the loop from item i on
InsertItems(tbl, o, i, ok) ==
    IF ~ok \/ i > Len(o.items) THEN [table |-> tbl, ok |-> ok]
    ELSE LET key == <<o.id, o.items[i].id>>
         IN IF key \in DOMAIN tbl
            THEN [table |-> tbl, ok |-> FALSE]
            ELSE InsertItems(Put(tbl, key, [order_id |-> o.id,
                                            product_id |-> o.items[i].id,
                                            quantity |-> o.items[i].quantity]),
                             o, i + 1, TRUE)

\* The message of the failed INSERT INTO orders (e.to_string()).  SQLite checks
\* the UNIQUE index of order_number before the index of the primary key and
\* reports the first that fails; foreign keys are checked when the statement
\* ends.
OrderInsertError(o) ==
    IF \E x \in DOMAIN orders : orders[x].order_number = o.order_number
    THEN <<"UNIQUE constraint failed: orders.order_number">>
    ELSE IF o.id \in DOMAIN orders
    THEN <<"UNIQUE constraint failed: orders.id">>
    ELSE <<"FOREIGN KEY constraint failed">>
\* the message of a failed INSERT INTO order_items
ItemInsertError == <<"UNIQUE constraint failed: order_items.id">>

\* OrderRepository::update: UPDATE orders SET order_number, date, customer_id,
\* ... WHERE id; created_at and the order_items rows are not written
OrderUpdateOk(o) ==
    o.id \in DOMAIN orders =>
        /\ OrderNumberFree(orders, o.id, o.order_number)
        /\ CustomerFkOk(customers, o.customer_id)
OrderUpdate(ords, o) ==
    IF o.id \in DOMAIN ords
    THEN [ords EXCEPT ![o.id] =
            [@ EXCEPT !.order_number = o.order_number, !.date = o.date,
                      !.customer_id = o.customer_id]]
    ELSE ords
\* an update that replaces the order's items by the submitted ones
ItemsAfterUpdateReplaced(tbl, o) ==
    InsertItems(Drop(tbl, {k \in DOMAIN tbl : k[1] = o.id}), o, 1, TRUE).table

\* order_items after OrderRepository::update: its one statement is the UPDATE
\* of orders
ItemsAfterUpdate(tbl, o) == tbl

\* the message of the failed UPDATE orders
OrderUpdateError(o) ==
    IF ~OrderNumberFree(orders, o.id, o.order_number)
    THEN <<"UNIQUE constraint failed: orders.order_number">>
    ELSE <<"FOREIGN KEY constraint failed">>

\* stock - ?1 without the MAX(0, ..) around it
DeductedStockUnclamped(stock, quantity) == stock - quantity

\* ProductRepository::deduct_stock:
\*   UPDATE products SET stock = CASE WHEN track_stock = 1 AND stock IS NOT NULL
\*     THEN MAX(0, stock - ?1) ELSE stock END WHERE id = ?3 AND track_stock = 1
DeductedStock(stock, quantity) ==
    IF stock - quantity > 0 THEN stock - quantity ELSE 0

\* a deduction computed from the stock as it was read before the other
\* deductions (2, the stock of the initial state), written back over them
DeductStockStale(prods, product_id, quantity) ==
    IF product_id \in DOMAIN prods /\ prods[product_id].track_stock = Some(1)
    THEN [prods EXCEPT ![product_id].stock =
            IF IsSome(@) THEN Some(DeductedStock(2, quantity)) ELSE @]
    ELSE prods

DeductStock(prods, product_id, quantity) ==
    IF product_id \in DOMAIN prods /\ prods[product_id].track_stock = Some(1)
    THEN [prods EXCEPT ![product_id].stock =
            IF IsSome(@) THEN Some(DeductedStock(Unwrap(@), quantity)) ELSE @]
    ELSE prods

-----------------------------------------------------------------------------
(* save_order (commands/order_commands.rs) *)

\* The locals of a running save_order: arg is the order as submitted, order the
\* order as the command has rewritten it so far.
\* gen and touched_at are history: the outcome of the generator when the
\* command called it, and the clock reading the command wrote to its customer.
SoProc(pc, arg, order, st, customer_exists, existing, idx) ==
    [pc |-> pc, cmd |-> "save_order", arg |-> arg, order |-> order,
     settings |-> st, customer_exists |-> customer_exists,
     existing |-> existing, idx |-> idx, gen |-> None, touched_at |-> None]

\* save_order returned Ok(value) or Err(value); stage is the step it returned
\* from, the other fields are the locals it ended with
SoDone(pr, ok, value) ==
    [pc |-> "done", cmd |-> "save_order", arg |-> pr.arg, ok |-> ok,
     value |-> value, stage |-> pr.pc, order |-> pr.order,
     customer_exists |-> pr.customer_exists, existing |-> pr.existing,
     gen |-> pr.gen, touched_at |-> pr.touched_at]

\* a save_order that generates the number whatever the order carries
SoFirstStepAlways(o) == "so_number"

\* only an empty order number is generated
SoFirstStep(o) == IF o.order_number = <<>> THEN "so_number" ELSE "so_customer"

\* settings_repo.get_settings(); a non-empty order number is kept as it is and
\* the generator is not called
SoBegin(p, o, cap) ==
    /\ Invoke(p, cap)
    /\ procs' = [procs EXCEPT ![p] =
                    SoProc(SoFirstStep(o), o, o, settings, FALSE, FALSE, 0)]
    /\ UNCHANGED <<db, foreign_keys, mutex, presets, poisoned, now, hist>>

\* a generator that counts its calls in the settings row
SoNumberCounting(p) ==
    /\ procs[p].pc = "so_number"
    /\ ~poisoned
    /\ \E out \in GenerateOrderNumber(procs[p].settings, orders, now) :
          /\ ~out.panic
          /\ procs' = [procs EXCEPT ![p] =
                         [@ EXCEPT !.pc = "so_customer",
                                   !.order.order_number = out.number,
                                   !.gen = Some(out)]]
          /\ last_gen' = Some([settings |-> procs[p].settings, orders |-> orders,
                               now |-> now, number |-> out.number])
    /\ settings' = [settings EXCEPT !.order_number_digits = @ + 1]
    /\ UNCHANGED <<customers, orders, order_items, products, foreign_keys, mutex, presets,
                   poisoned, now, calls, deducted>>

\* order_repo.generate_order_number(&settings, &order.date)
SoNumber(p) ==
    /\ procs[p].pc = "so_number"
    /\ ~poisoned
    /\ \E out \in GenerateOrderNumber(procs[p].settings, orders, now) :
          IF out.panic
          THEN /\ poisoned' = TRUE
               /\ procs' = [procs EXCEPT ![p] = Panicked("save_order", procs[p].arg)]
               /\ last_gen' = last_gen
          ELSE /\ poisoned' = poisoned
               /\ procs' = [procs EXCEPT ![p] =
                              [@ EXCEPT !.pc = "so_customer",
                                        !.order.order_number = out.number,
                                        !.gen = Some(out)]]
               /\ last_gen' = Some([settings |-> procs[p].settings, orders |-> orders,
                                    now |-> now, number |-> out.number])
    /\ UNCHANGED <<db, foreign_keys, mutex, presets, now, calls, deducted>>

\* a save_order that points the order at a stored customer of the same phone
\* or plate
SoResolvedByIdentity(o) ==
    LET c == o.customer
        found == {id \in DOMAIN customers :
                    \/ c.phone # <<>> /\ customers[id].phone = c.phone
                    \/ c.license_plate # <<>> /\ customers[id].license_plate = c.license_plate}
    IN IF found = {} \/ o.customer_id \in found THEN o
       ELSE LET id == CHOOSE x \in found : TRUE
            IN [o EXCEPT !.customer_id = id, !.customer.id = id]

\* a save_order that stores a temp_ customer under its own id
SoResolvedAsSubmitted(o) == o

\* the customer reference: a temp_ customer becomes the order's own snapshot
\* customer; then customer_repo.get_by_id(..).is_ok()
SoResolved(o) ==
    IF StartsWith(o.customer_id, "temp_")
    THEN [o EXCEPT !.customer_id = SnapshotId(o.id),
                   !.customer.id = SnapshotId(o.id)]
    ELSE o

SoCustomer(p) ==
    /\ procs[p].pc = "so_customer"
    /\ ~poisoned
    /\ LET o == SoResolved(procs[p].order)
           found == CustomerExists(o.customer_id)
       IN procs' = [procs EXCEPT ![p] =
                       [@ EXCEPT !.order = o, !.customer_exists = found,
                                 !.pc = IF found THEN "so_probe" ELSE "so_customer_insert"]]
    /\ UNCHANGED <<db, foreign_keys, mutex, presets, poisoned, now, calls, hist>>

\* customer_repo.insert(&order.customer)?
SoCustomerInsert(p) ==
    /\ procs[p].pc = "so_customer_insert"
    /\ ~poisoned
    /\ LET c == procs[p].order.customer
       IN IF CustomerInsertOk(c)
          THEN /\ customers' = CustomerInsert(customers, c)
               /\ procs' = [procs EXCEPT ![p].pc = "so_probe"]
          ELSE /\ customers' = customers
               /\ procs' = [procs EXCEPT ![p] =
                              SoDone(procs[p], FALSE, <<"customer insert">>)]
    /\ UNCHANGED <<orders, order_items, products, settings, foreign_keys, mutex, presets,
                   poisoned, now, calls, hist>>

\* let existing = order_repo.get_by_id(&order.id)
SoProbe(p) ==
    /\ procs[p].pc = "so_probe"
    /\ ~poisoned
    /\ procs' = [procs EXCEPT ![p] =
                    [@ EXCEPT !.existing = (procs[p].order.id \in DOMAIN orders),
                              !.pc = "so_persist"]]
    /\ UNCHANGED <<db, foreign_keys, mutex, presets, poisoned, now, calls, hist>>

\* what follows the insert or update: stock deduction for a new order with
\* items, then the customer's last purchase time unless the customer is an
\* order_customer_ snapshot
SoAfterDeduct(pr) ==
    IF StartsWith(pr.order.customer_id, "order_customer_")
    THEN SoDone(pr, TRUE, pr.order.order_number)
    ELSE [pr EXCEPT !.pc = "so_touch"]

\* a save_order that deducts stock after the update as after the insert
SoAfterPersistAlways(pr) ==
    IF Len(pr.order.items) > 0
    THEN [pr EXCEPT !.pc = "so_deduct", !.idx = 1]
    ELSE SoAfterDeduct(pr)

SoAfterPersist(pr) ==
    IF ~pr.existing /\ Len(pr.order.items) > 0
    THEN [pr EXCEPT !.pc = "so_deduct", !.idx = 1]
    ELSE SoAfterDeduct(pr)

\* order_repo.update(&order)? when the probe found the order, else
\* order_repo.insert(&order)?
SoPersist(p) ==
    /\ procs[p].pc = "so_persist"
    /\ ~poisoned
    /\ LET pr == procs[p]
           o == pr.order
       IN IF pr.existing
          THEN IF OrderUpdateOk(o)
               THEN /\ orders' = OrderUpdate(orders, o)
                    /\ order_items' = ItemsAfterUpdate(order_items, o)
                    /\ procs' = [procs EXCEPT ![p] = SoAfterPersist(pr)]
               ELSE /\ UNCHANGED <<orders, order_items>>
                    /\ procs' = [procs EXCEPT ![p] = SoDone(pr, FALSE, OrderUpdateError(o))]
          ELSE IF OrderInsertRowOk(o)
               THEN LET items == InsertItems(order_items, o, 1, TRUE)
                    IN /\ orders' = Put(orders, o.id, OrderRow(o))
                       /\ order_items' = items.table
                       /\ procs' = [procs EXCEPT ![p] =
                                       IF items.ok THEN SoAfterPersist(pr)
                                       ELSE SoDone(pr, FALSE, ItemInsertError)]
               ELSE /\ UNCHANGED <<orders, order_items>>
                    /\ procs' = [procs EXCEPT ![p] = SoDone(pr, FALSE, OrderInsertError(o))]
    /\ UNCHANGED <<customers, products, settings, foreign_keys, mutex, presets, poisoned, now,
                   calls, hist>>

\* product_repo.deduct_stock_batch: one deduct_stock call, under its own lock,
\* per item, with the item's id as the product id
SoDeduct(p) ==
    /\ procs[p].pc = "so_deduct"
    /\ ~poisoned
    /\ LET pr == procs[p]
           item == pr.order.items[pr.idx]
       IN /\ products' = DeductStock(products, item.id, item.quantity)
          /\ deducted' = IF pr.idx = 1
                         THEN [deducted EXCEPT ![pr.order.id] = @ + 1]
                         ELSE deducted
          /\ procs' = [procs EXCEPT ![p] =
                          IF pr.idx < Len(pr.order.items)
                          THEN [pr EXCEPT !.idx = pr.idx + 1]
                          ELSE SoAfterDeduct(pr)]
    /\ UNCHANGED <<customers, orders, order_items, settings, foreign_keys, mutex, presets,
                   poisoned, now, calls, last_gen>>

\* customer.last_purchase_at = Some(now); customer.updated_at = now;
\* customer_repo.update(&customer)?
SoTouched(c, t) == [c EXCEPT !.last_purchase_at = Some(t), !.updated_at = t]

SoTouch(p) ==
    /\ procs[p].pc = "so_touch"
    /\ ~poisoned
    /\ customers' = CustomerUpdate(customers, SoTouched(procs[p].order.customer, now))
    /\ procs' = [procs EXCEPT ![p] =
                    SoDone([procs[p] EXCEPT !.touched_at = Some(now)], TRUE,
                           procs[p].order.order_number)]
    /\ UNCHANGED <<orders, order_items, products, settings, foreign_keys, mutex, presets,
                   poisoned, now, calls, hist>>

SaveOrderStep(p) ==
    \/ SoNumber(p)
    \/ SoCustomer(p)
    \/ SoCustomerInsert(p)
    \/ SoProbe(p)
    \/ SoPersist(p)
    \/ SoDeduct(p)
    \/ SoTouch(p)

-----------------------------------------------------------------------------
(* save_customer, merge_customers, delete_customer, batch_delete_customers
   (commands/customer_commands.rs) and save_settings *)

\* str::trim on a text of letters and spaces
RECURSIVE TrimStart(_)
TrimStart(txt) ==
    IF txt # <<>> /\ Head(txt) = " " THEN TrimStart(Tail(txt)) ELSE txt
RECURSIVE TrimEnd(_)
TrimEnd(txt) ==
    IF txt # <<>> /\ txt[Len(txt)] = " " THEN TrimEnd(SubSeq(txt, 1, Len(txt) - 1)) ELSE txt
Trim(txt) == TrimEnd(TrimStart(txt))

\* Option::or
OrElse(a, b) == IF IsSome(a) THEN a ELSE b

\* a row of customers as the Customer the repository returns
AsCustomer(custs, id) ==
    [id |-> id, name |-> custs[id].name, phone |-> custs[id].phone,
     license_plate |-> custs[id].license_plate, address |-> custs[id].address,
     last_purchase_at |-> custs[id].last_purchase_at,
     created_at |-> custs[id].created_at, updated_at |-> custs[id].updated_at]

\* a find_by_identity that never finds a row
FindByIdentityNothing(custs, phone, license_plate) == {}

\* CustomerRepository::find_by_identity: the ids the query can return,
\*   WHERE (?1 <> '' AND phone = ?1) OR (?2 <> '' AND license_plate = ?2)
\*   ORDER BY updated_at DESC LIMIT 1
FindByIdentity(custs, phone, license_plate) ==
    LET hits == {id \in DOMAIN custs :
                    \/ phone # <<>> /\ custs[id].phone = phone
                    \/ license_plate # <<>> /\ custs[id].license_plate = license_plate}
    IN {id \in hits : \A x \in hits : custs[x].updated_at <= custs[id].updated_at}

\* The locals of a running save_customer; matched tells whether
\* find_by_identity returned a row, existing is that row.
ScProc(pc, arg, existing) ==
    [pc |-> pc, cmd |-> "save_customer", arg |-> arg, existing |-> existing,
     matched |-> (pc = "sc_merge"), before |-> Before]
\* save_customer returned; stage is the step it returned from
ScDone(pr, ok, value) ==
    [pc |-> "done", cmd |-> "save_customer", arg |-> pr.arg, ok |-> ok,
     value |-> value, stage |-> pr.pc, existing |-> pr.existing,
     matched |-> pr.matched, before |-> pr.before]

\* repo.find_by_identity(&customer.phone, &customer.license_plate)
ScBegin(p, c, cap) ==
    /\ Invoke(p, cap)
    /\ LET found == FindByIdentity(customers, c.phone, c.license_plate)
       IN IF found = {}
          THEN procs' = [procs EXCEPT ![p] = ScProc("sc_get", c, c)]
          ELSE \E id \in found :
                  procs' = [procs EXCEPT ![p] =
                               ScProc("sc_merge", c, AsCustomer(customers, id))]
    /\ UNCHANGED <<db, foreign_keys, mutex, presets, poisoned, now, hist>>

\* a merge in which the incoming name, phone and plate always win
ScMergedOverwriting(customer, existing, t) ==
    [id |-> existing.id,
     name |-> Trim(customer.name),
     phone |-> Trim(customer.phone),
     license_plate |-> Trim(customer.license_plate),
     address |-> OrElse(customer.address, existing.address),
     last_purchase_at |-> existing.last_purchase_at,
     created_at |-> existing.created_at,
     updated_at |-> t]

\* the merge of the incoming customer into the matched row: a non-blank
\* incoming name, phone or plate replaces the stored one
ScMerged(customer, existing, t) ==
    [id |-> existing.id,
     name |-> IF Trim(customer.name) = <<>> THEN existing.name ELSE Trim(customer.name),
     phone |-> IF Trim(customer.phone) = <<>> THEN existing.phone ELSE Trim(customer.phone),
     license_plate |-> IF Trim(customer.license_plate) = <<>>
                       THEN existing.license_plate ELSE Trim(customer.license_plate),
     address |-> OrElse(customer.address, existing.address),
     last_purchase_at |-> existing.last_purchase_at,
     created_at |-> existing.created_at,
     updated_at |-> t]

\* return repo.update(&merged)
ScMerge(p) ==
    /\ procs[p].pc = "sc_merge"
    /\ ~poisoned
    /\ customers' = CustomerUpdate(customers, ScMerged(procs[p].arg, procs[p].existing, now))
    /\ procs' = [procs EXCEPT ![p] = ScDone(procs[p], TRUE, <<>>)]
    /\ UNCHANGED <<orders, order_items, products, settings, foreign_keys, mutex, presets,
                   poisoned, now, calls, hist>>

\* let existing = repo.get_by_id(&customer.id)
ScGet(p) ==
    /\ procs[p].pc = "sc_get"
    /\ ~poisoned
    /\ procs' = [procs EXCEPT ![p].pc =
                    IF CustomerExists(procs[p].arg.id) THEN "sc_update" ELSE "sc_insert"]
    /\ UNCHANGED <<db, foreign_keys, mutex, presets, poisoned, now, calls, hist>>

\* repo.update(&customer)
ScUpdate(p) ==
    /\ procs[p].pc = "sc_update"
    /\ ~poisoned
    /\ customers' = CustomerUpdate(customers, procs[p].arg)
    /\ procs' = [procs EXCEPT ![p] = ScDone(procs[p], TRUE, <<>>)]
    /\ UNCHANGED <<orders, order_items, products, settings, foreign_keys, mutex, presets,
                   poisoned, now, calls, hist>>

\* repo.insert(&customer)
ScInsert(p) ==
    /\ procs[p].pc = "sc_insert"
    /\ ~poisoned
    /\ LET c == procs[p].arg
       IN IF CustomerInsertOk(c)
          THEN /\ customers' = CustomerInsert(customers, c)
               /\ procs' = [procs EXCEPT ![p] = ScDone(procs[p], TRUE, <<>>)]
          ELSE /\ customers' = customers
               /\ procs' = [procs EXCEPT ![p] =
                              ScDone(procs[p], FALSE, <<"customer insert">>)]
    /\ UNCHANGED <<orders, order_items, products, settings, foreign_keys, mutex, presets,
                   poisoned, now, calls, hist>>

SaveCustomerStep(p) == ScMerge(p) \/ ScGet(p) \/ ScUpdate(p) \/ ScInsert(p)

\* a listing that leaves the order_customer_ rows in
ListedWithSnapshots(id) ==
    /\ ~Like(IdText(id), <<"t", "e", "m", "p", "_", "%">>)
    /\ ~Like(IdText(id), <<"d", "e", "l", "e", "t", "e", "d", "_", "%">>)

\* the condition on id of CustomerRepository::get_all and ::search:
\*   id NOT LIKE 'temp_%' AND id NOT LIKE 'order_customer_%'
\*   AND id NOT LIKE 'deleted_%'
Listed(id) ==
    /\ ~Like(IdText(id), <<"t", "e", "m", "p", "_", "%">>)
    /\ ~Like(IdText(id), <<"o", "r", "d", "e", "r", "_", "c", "u", "s", "t", "o", "m",
                            "e", "r", "_", "%">>)
    /\ ~Like(IdText(id), <<"d", "e", "l", "e", "t", "e", "d", "_", "%">>)

\* CustomerRepository::get_all: the ids of the rows it returns
GetAll(custs) == {id \in DOMAIN custs : Listed(id)}

\* CustomerRepository::search with pattern format!("%{}%", query):
\*   ... AND (name LIKE ?1 OR license_plate LIKE ?2 OR phone LIKE ?3)
Search(custs, query) ==
    LET pattern == <<"%">> \o query \o <<"%">>
    IN {id \in DOMAIN custs :
          /\ Listed(id)
          /\ \/ Like(custs[id].name, pattern)
             \/ Like(custs[id].license_plate, pattern)
             \/ Like(custs[id].phone, pattern)}

\* get_all_customers: repo.get_all()
GetAllCustomers(p, cap) ==
    /\ Invoke(p, cap)
    /\ procs' = [procs EXCEPT ![p] =
                    Done("get_all_customers", <<>>, TRUE, GetAll(customers))]
    /\ UNCHANGED <<db, foreign_keys, mutex, presets, poisoned, now, hist>>

\* search_customers(query): repo.search(&query)
SearchCustomers(p, query, cap) ==
    /\ Invoke(p, cap)
    /\ procs' = [procs EXCEPT ![p] =
                    Done("search_customers", query, TRUE, Search(customers, query))]
    /\ UNCHANGED <<db, foreign_keys, mutex, presets, poisoned, now, hist>>

\* an UPDATE of orders that matches no row
RelinkOrdersNowhere(ords, from, to) == ords

\* UPDATE orders SET customer_id = ?1 WHERE customer_id = ?3
RelinkOrders(ords, from, to) ==
    [o \in DOMAIN ords |->
        IF ords[o].customer_id = from THEN [ords[o] EXCEPT !.customer_id = to]
        ELSE ords[o]]
\* the statement fails, and changes nothing, when it would leave a row whose
\* customer_id has no customers row and foreign keys are enforced
RelinkOk(custs, ords, from, to) ==
    (\E o \in DOMAIN ords : ords[o].customer_id = from) => CustomerFkOk(custs, to)

\* DELETE FROM customers WHERE id = ?1.  Where foreign keys are enforced,
\* ON DELETE CASCADE deletes the orders of the customer and their order_items.
CascadedOrders(ords, id) ==
    IF foreign_keys THEN {o \in DOMAIN ords : ords[o].customer_id = id} ELSE {}
CustomerDelete(custs, id) == Drop(custs, {id})
OrdersAfterDelete(ords, id) == Drop(ords, CascadedOrders(ords, id))
ItemsAfterDelete(items, ords, id) ==
    Drop(items, {k \in DOMAIN items : k[1] \in CascadedOrders(ords, id)})

McProc(pc, arg, source, target) ==
    [pc |-> pc, cmd |-> "merge_customers", arg |-> arg, source |-> source,
     target |-> target, before |-> Before]
\* merge_customers returned from a step after its first; stage is that step
McDone(pr, ok, value) ==
    [pc |-> "done", cmd |-> "merge_customers", arg |-> pr.arg, ok |-> ok,
     value |-> value, stage |-> pr.pc, source |-> pr.source,
     target |-> pr.target, before |-> pr.before]

\* a merge_customers without the test source_id == target_id
McBeginUnchecked(p, source_id, target_id, cap) ==
    /\ Invoke(p, cap)
    /\ LET arg == [source_id |-> source_id, target_id |-> target_id]
       IN procs' = [procs EXCEPT ![p] =
            IF ~CustomerExists(source_id)
            THEN Done("merge_customers", arg, FALSE, <<"no source">>)
            ELSE McProc("mc_target", arg, AsCustomer(customers, source_id),
                        AsCustomer(customers, source_id))]
    /\ UNCHANGED <<db, foreign_keys, mutex, presets, poisoned, now, hist>>

\* if source_id == target_id { return Err(..) }; repo.get_by_id(&source_id)?
McBegin(p, source_id, target_id, cap) ==
    /\ Invoke(p, cap)
    /\ LET arg == [source_id |-> source_id, target_id |-> target_id]
       IN procs' = [procs EXCEPT ![p] =
            IF source_id = target_id
            THEN Done("merge_customers", arg, FALSE, <<"same customer">>)
            ELSE IF ~CustomerExists(source_id)
            THEN Done("merge_customers", arg, FALSE, <<"no source">>)
            ELSE McProc("mc_target", arg, AsCustomer(customers, source_id),
                        AsCustomer(customers, source_id))]
    /\ UNCHANGED <<db, foreign_keys, mutex, presets, poisoned, now, hist>>

\* repo.get_by_id(&target_id)?
McTarget(p) ==
    /\ procs[p].pc = "mc_target"
    /\ ~poisoned
    /\ LET pr == procs[p]
       IN procs' = [procs EXCEPT ![p] =
            IF CustomerExists(pr.arg.target_id)
            THEN [pr EXCEPT !.pc = "mc_update",
                            !.target = AsCustomer(customers, pr.arg.target_id)]
            ELSE McDone(pr, FALSE, <<"no target">>)]
    /\ UNCHANGED <<db, foreign_keys, mutex, presets, poisoned, now, calls, hist>>

\* the merged target: the target's name, phone and plate unless blank
McMerged(source, target, t) ==
    [id |-> target.id,
     name |-> IF Trim(target.name) = <<>> THEN source.name ELSE target.name,
     phone |-> IF Trim(target.phone) = <<>> THEN source.phone ELSE target.phone,
     license_plate |-> IF Trim(target.license_plate) = <<>>
                       THEN source.license_plate ELSE target.license_plate,
     address |-> OrElse(target.address, source.address),
     last_purchase_at |-> OrElse(target.last_purchase_at, source.last_purchase_at),
     created_at |-> target.created_at,
     updated_at |-> t]

\* repo.update(&merged)?
McUpdate(p) ==
    /\ procs[p].pc = "mc_update"
    /\ ~poisoned
    /\ customers' = CustomerUpdate(customers, McMerged(procs[p].source, procs[p].target, now))
    /\ procs' = [procs EXCEPT ![p].pc = "mc_relink"]
    /\ UNCHANGED <<orders, order_items, products, settings, foreign_keys, mutex, presets,
                   poisoned, now, calls, hist>>

\* under one lock: the UPDATE of orders, then the DELETE of the source row
McRelink(p) ==
    /\ procs[p].pc = "mc_relink"
    /\ ~poisoned
    /\ LET pr == procs[p]
           src == pr.arg.source_id
           tgt == pr.arg.target_id
           relinked == RelinkOrders(orders, src, tgt)
       IN IF RelinkOk(customers, orders, src, tgt)
          THEN /\ customers' = CustomerDelete(customers, src)
               /\ orders' = OrdersAfterDelete(relinked, src)
               /\ order_items' = ItemsAfterDelete(order_items, relinked, src)
               /\ procs' = [procs EXCEPT ![p] = McDone(pr, TRUE, <<>>)]
          ELSE /\ UNCHANGED <<customers, orders, order_items>>
               /\ procs' = [procs EXCEPT ![p] = McDone(pr, FALSE, <<"relink">>)]
    /\ UNCHANGED <<products, settings, foreign_keys, mutex, presets, poisoned, now, calls, hist>>

MergeCustomersStep(p) == McTarget(p) \/ McUpdate(p) \/ McRelink(p)

\* the placeholder row ensure_placeholder_customer_and_relink_orders inserts
PlaceholderRow(original_customer_id, t) ==
    [name |-> <<"deleted customer">>, phone |-> <<>>, license_plate |-> <<>>,
     address |-> Some(<<"original id">> \o original_customer_id),
     last_purchase_at |-> None, created_at |-> t, updated_at |-> t]

\* an ensure_placeholder that writes the placeholder row whether or not it
\* is stored
EnsurePlaceholderAnew(custs, id, t) ==
    Put(Drop(custs, {PlaceholderId(id)}), PlaceholderId(id), PlaceholderRow(id, t))

\* ensure_placeholder_customer_and_relink_orders, under one lock: the COUNT,
\* the INSERT when the placeholder is missing, the UPDATE of orders
EnsurePlaceholder(custs, id, t) ==
    IF PlaceholderId(id) \in DOMAIN custs THEN custs
    ELSE Put(custs, PlaceholderId(id), PlaceholderRow(id, t))

DcProc(pc, cmd, arg, ids, idx) ==
    [pc |-> pc, cmd |-> cmd, arg |-> arg, ids |-> ids, idx |-> idx,
     before |-> Before]
\* delete_customer or batch_delete_customers returned Ok(())
DcDone(pr) ==
    [pc |-> "done", cmd |-> pr.cmd, arg |-> pr.arg, ok |-> TRUE, value |-> <<>>,
     ids |-> pr.ids, before |-> pr.before]

\* a delete that inserts the placeholder and leaves the orders as they are
DcEnsureWithoutRelink(pr) ==
    /\ customers' = EnsurePlaceholder(customers, pr.ids[pr.idx], now)
    /\ UNCHANGED <<orders, order_items, products, settings>>

DcEnsure(pr) ==
    /\ customers' = EnsurePlaceholder(customers, pr.ids[pr.idx], now)
    /\ orders' = RelinkOrders(orders, pr.ids[pr.idx], PlaceholderId(pr.ids[pr.idx]))
    /\ UNCHANGED <<order_items, products, settings>>

\* delete_customer(id): ensure_placeholder_customer_and_relink_orders(&id)?
DeleteCustomerBegin(p, id, cap) ==
    /\ Invoke(p, cap)
    /\ DcEnsure(DcProc("dc_delete", "delete_customer", id, <<id>>, 1))
    /\ procs' = [procs EXCEPT ![p] = DcProc("dc_delete", "delete_customer", id, <<id>>, 1)]
    /\ UNCHANGED <<foreign_keys, mutex, presets, poisoned, now, hist>>

\* batch_delete_customers(ids): the same two calls for each id in turn
BatchDeleteBegin(p, ids, cap) ==
    /\ Invoke(p, cap)
    /\ IF ids = <<>>
       THEN /\ procs' = [procs EXCEPT ![p] = Done("batch_delete_customers", ids, TRUE, <<>>)]
            /\ UNCHANGED db
       ELSE /\ DcEnsure(DcProc("dc_delete", "batch_delete_customers", ids, ids, 1))
            /\ procs' = [procs EXCEPT ![p] =
                            DcProc("dc_delete", "batch_delete_customers", ids, ids, 1)]
    /\ UNCHANGED <<foreign_keys, mutex, presets, poisoned, now, hist>>

\* the next id's ensure_placeholder_customer_and_relink_orders
DcRelink(p) ==
    /\ procs[p].pc = "dc_ensure"
    /\ ~poisoned
    /\ DcEnsure(procs[p])
    /\ procs' = [procs EXCEPT ![p].pc = "dc_delete"]
    /\ UNCHANGED <<foreign_keys, mutex, presets, poisoned, now, calls, hist>>

\* repo.delete(&id)
DcDelete(p) ==
    /\ procs[p].pc = "dc_delete"
    /\ ~poisoned
    /\ LET pr == procs[p]
           id == pr.ids[pr.idx]
       IN /\ customers' = CustomerDelete(customers, id)
          /\ orders' = OrdersAfterDelete(orders, id)
          /\ order_items' = ItemsAfterDelete(order_items, orders, id)
          /\ procs' = [procs EXCEPT ![p] =
                          IF pr.idx < Len(pr.ids)
                          THEN [pr EXCEPT !.pc = "dc_ensure", !.idx = pr.idx + 1]
                          ELSE DcDone(pr)]
    /\ UNCHANGED <<products, settings, foreign_keys, mutex, presets, poisoned, now, calls, hist>>

DeleteCustomersStep(p) == DcRelink(p) \/ DcDelete(p)

\* save_settings: INSERT OR REPLACE INTO app_settings
SaveSettings(p, st, cap) ==
    /\ Invoke(p, cap)
    /\ settings' = st
    /\ procs' = [procs EXCEPT ![p] = Done("save_settings", st, TRUE, <<>>)]
    /\ UNCHANGED <<customers, orders, order_items, products, foreign_keys, mutex, presets,
                   poisoned, now, hist>>

-----------------------------------------------------------------------------
(* Unit and remark presets (commands/unit_preset_commands.rs,
   commands/remark_preset_commands.rs) *)

\* a unit_presets row; insert_default_data stores the default units with
\* use_count 0
UnitPresetRow(name, sort_order, use_count, t) ==
    [name |-> name, sort_order |-> sort_order, use_count |-> use_count,
     created_at |-> t, updated_at |-> t]
InitUnitPresets == ("u1" :> UnitPresetRow(<<"U">>, 1, 0, 0))

\* UnitPresetRepository::update:
\*   UPDATE unit_presets SET name = ?1, sort_order = ?2, updated_at = ?3 WHERE id = ?4
UnitPresetUpdate(tbl, preset) ==
    IF preset.id \in DOMAIN tbl
    THEN [tbl EXCEPT ![preset.id] =
            [@ EXCEPT !.name = preset.name, !.sort_order = preset.sort_order,
                      !.updated_at = preset.updated_at]]
    ELSE tbl

\* RemarkPresetRepository::increment_use_count:
\*   UPDATE remark_presets SET use_count = use_count + 1 WHERE id = ?1
RemarkIncrementUseCount(tbl, id) ==
    IF id \in DOMAIN tbl THEN [tbl EXCEPT ![id].use_count = @ + 1] ELSE tbl

\* increment_unit_preset_use_count(id): let mut preset = repo.get_by_id(&id)?
IuBegin(p, id, cap) ==
    /\ Invoke(p, cap)
    /\ procs' = [procs EXCEPT ![p] =
                    IF id \in DOMAIN unit_presets
                    THEN [pc |-> "iu_update", cmd |-> "increment_unit_preset_use_count",
                          arg |-> id,
                          preset |-> [id |-> id,
                                      name |-> unit_presets[id].name,
                                      sort_order |-> unit_presets[id].sort_order,
                                      use_count |-> unit_presets[id].use_count,
                                      created_at |-> unit_presets[id].created_at,
                                      updated_at |-> unit_presets[id].updated_at]]
                    ELSE Done("increment_unit_preset_use_count", id, FALSE,
                              <<"Query returned no rows">>)]
    /\ UNCHANGED <<db, foreign_keys, presets, mutex, poisoned, now, hist>>

\* preset.use_count += 1; preset.updated_at = now; repo.update(&preset)
IuUpdate(p) ==
    /\ procs[p].pc = "iu_update"
    /\ ~poisoned
    /\ LET preset == [procs[p].preset EXCEPT !.use_count = @ + 1, !.updated_at = now]
       IN unit_presets' = UnitPresetUpdate(unit_presets, preset)
    /\ procs' = [procs EXCEPT ![p] =
                    Done("increment_unit_preset_use_count", procs[p].arg, TRUE, <<>>)]
    /\ UNCHANGED <<db, foreign_keys, remark_presets, mutex, poisoned, now, calls, hist>>

\* increment_remark_use_count(id): repo.increment_use_count(&id)
IncrementRemarkUseCount(p, id, cap) ==
    /\ Invoke(p, cap)
    /\ remark_presets' = RemarkIncrementUseCount(remark_presets, id)
    /\ procs' = [procs EXCEPT ![p] = Done("increment_remark_use_count", id, TRUE, <<>>)]
    /\ UNCHANGED <<db, foreign_keys, unit_presets, mutex, poisoned, now, hist>>

\* delete_unit_preset(id): repo.delete(&id)
DeleteUnitPreset(p, id, cap) ==
    /\ Invoke(p, cap)
    /\ unit_presets' = Drop(unit_presets, {id})
    /\ procs' = [procs EXCEPT ![p] = Done("delete_unit_preset", id, TRUE, <<>>)]
    /\ UNCHANGED <<db, foreign_keys, remark_presets, mutex, poisoned, now, hist>>

-----------------------------------------------------------------------------
(* The runtime *)

\* the caller receives the command's result
Return(p) ==
    /\ procs[p].pc = "done"
    /\ procs' = [procs EXCEPT ![p] = Idle]
    /\ UNCHANGED <<db, foreign_keys, mutex, presets, poisoned, now, calls, hist>>

\* a command that takes the mutex after a panic poisoned it panics in turn
PoisonedStep(p) ==
    /\ Running(p)
    /\ poisoned
    /\ procs' = [procs EXCEPT ![p] = Panicked(procs[p].cmd, procs[p].arg)]
    /\ UNCHANGED <<db, foreign_keys, mutex, presets, poisoned, now, calls, hist>>

\* time passes
Tick ==
    /\ now < MaxNow
    /\ now' = now + 1
    /\ UNCHANGED <<db, foreign_keys, mutex, presets, poisoned, procs, calls, hist>>

-----------------------------------------------------------------------------
(* Initial state and the commands' inputs *)

\* the app_settings row insert_default_data writes: 'NO.{SEQ:6}', daily reset
\* on, six digits
DefaultSettings ==
    [order_number_format |-> <<Lit("N"), Lit("O"), Lit("."), SeqTok(6)>>,
     order_number_reset_daily |-> TRUE,
     order_number_digits |-> 6]

Cust(id, name, phone, plate) ==
    [id |-> id, name |-> name, phone |-> phone, license_plate |-> plate,
     address |-> None, last_purchase_at |-> None, created_at |-> 0, updated_at |-> 0]

Item(product_id, quantity) == [id |-> product_id, quantity |-> quantity]

\* an Order as the client submits it; the embedded customer is the customer
\* the order refers to
Order(id, number, date, customer, items, created_at) ==
    [id |-> id, order_number |-> number, date |-> date,
     customer_id |-> customer.id, customer |-> customer, items |-> items,
     created_at |-> created_at]

\* The database the behaviours start from: one ordinary customer, no order, a
\* tracked product with stock, an untracked product with stock and a tracked
\* product without a stock value.
InitCustomers == (<<"c1">> :> CustomerRow(Cust(<<"c1">>, <<"A">>, <<"1">>, <<>>)))
InitProducts ==
    ("p1" :> [stock |-> Some(2), track_stock |-> Some(1)])
    @@ ("p2" :> [stock |-> Some(2), track_stock |-> Some(0)])
    @@ ("p3" :> [stock |-> None, track_stock |-> Some(1)])

Init ==
    /\ customers = InitCustomers
    /\ orders = <<>>
    /\ order_items = <<>>
    /\ products = InitProducts
    /\ settings = DefaultSettings
    /\ foreign_keys \in BOOLEAN
    /\ unit_presets = InitUnitPresets
    /\ remark_presets = <<>>
    /\ mutex = <<>>
    /\ poisoned = FALSE
    /\ now = 0
    /\ procs = [p \in Procs |-> Idle]
    /\ calls = 0
    /\ deducted = [o \in OrderIds |-> 0]
    /\ last_gen = None

\* customers the client submits: the stored c1 under another name, a new id
\* with c1's phone, a client-local temp_ customer
CustC1 == Cust(<<"c1">>, <<"B">>, <<"1">>, <<>>)
CustC2 == Cust(<<"c2">>, <<"B">>, <<"1">>, <<"P">>)
CustTemp == Cust(<<"temp_", "1">>, <<"T">>, <<"1">>, <<>>)

\* Spec: every command, invoked concurrently
SpecOrders ==
    {Order(<<"o1">>, <<>>, 0, CustC1, <<Item("p1", 1)>>, 0),
     Order(<<"o1">>, <<>>, 0, CustC2, <<>>, 0)}
SpecCustomers == {CustC2}
SpecMerges == {<<<<"c1">>, <<"c2">>>>, <<<<"c2">>, <<"c1">>>>, <<<<"c1">>, <<"c1">>>>}
SpecDeletes == {<<"c1">>}
SpecBatches == {<<<<"c1">>, <<"c2">>>>}
SpecSettings == {[DefaultSettings EXCEPT !.order_number_reset_daily = FALSE]}

Begin(p) ==
    \/ \E o \in SpecOrders : SoBegin(p, o, MaxCalls)
    \/ \E c \in SpecCustomers : ScBegin(p, c, MaxCalls)
    \/ \E m \in SpecMerges : McBegin(p, m[1], m[2], MaxCalls)
    \/ \E id \in SpecDeletes : DeleteCustomerBegin(p, id, MaxCalls)
    \/ \E ids \in SpecBatches : BatchDeleteBegin(p, ids, MaxCalls)
    \/ \E st \in SpecSettings : SaveSettings(p, st, MaxCalls)

Step(p) ==
    \/ SaveOrderStep(p)
    \/ SaveCustomerStep(p)
    \/ MergeCustomersStep(p)
    \/ DeleteCustomersStep(p)
    \/ Return(p)

Next == (\E p \in Procs : Begin(p) \/ Step(p)) \/ Tick

Spec == Init /\ [][Next]_vars

\* RaceSpec: save_order calls, invoked concurrently.  Order o1 comes from the
\* stored customer c1 and leaves its number to the generator; order o2 comes
\* from the new customer c2 and carries the text of u32::MAX as its number.
U32MaxText == <<"4", "2", "9", "4", "9", "6", "7", "2", "9", "5">>
RaceOrders ==
    {Order(<<"o1">>, <<>>, 0, CustC1, <<Item("p1", 1)>>, 0),
     Order(<<"o2">>, U32MaxText, 0, CustC2, <<Item("p1", 1)>>, 0)}

RaceNext ==
    \/ \E p \in Procs :
          \/ \E o \in RaceOrders : SoBegin(p, o, MaxRaceCalls)
          \/ SaveOrderStep(p)
          \/ Return(p)
          \/ PoisonedStep(p)
    \/ Tick

RaceSpec == Init /\ [][RaceNext]_vars

\* OrderSpec: save_order calls, each invoked when the one before has returned.
\* The customer is the stored c1, with no item or with the same product twice,
\* or the new id c2 with c1's phone and three items of which the first asks
\* for more than the stock, or a temp_ customer with no item.
OrderSpecOrders ==
    {Order(id, n, 0, ci[1], ci[2], 0) :
        id \in OrderIds, n \in {<<>>, <<"X">>},
        ci \in {<<CustC1, <<>>>>,
                <<CustC1, <<Item("p1", 1), Item("p1", 1)>>>>,
                <<CustC2, <<Item("p1", 3), Item("p2", 1), Item("p3", 1)>>>>,
                <<CustTemp, <<>>>>}}

OrderNext ==
    \/ \E o \in OrderSpecOrders : SoBegin("t1", o, MaxOrderCalls)
    \/ SaveOrderStep("t1")
    \/ Return("t1")
    \/ Tick

OrderSpec == Init /\ [][OrderNext]_vars

\* NumberSpec: save_order and save_settings calls, one after the other, for
\* the order-number generator.  Orders differ in date and created_at and
\* leave the number to the generator or supply one; the pattern is the default
\* one, a date followed by a four-digit sequence, or a day and a {SEQ}.
DateSeqSettings ==
    [order_number_format |-> <<Tok("YYYY"), Tok("MM"), Tok("DD"), SeqTok(4)>>,
     order_number_reset_daily |-> TRUE,
     order_number_digits |-> 6]
DaySeqSettings ==
    [order_number_format |-> <<Tok("D"), Lit("-"), SeqTok(-1)>>,
     order_number_reset_daily |-> FALSE,
     order_number_digits |-> 3]
NumberSettings == {DateSeqSettings, DaySeqSettings}
NumberOrders ==
    {Order(<<"o1">>, n, dt[1], CustC1, <<>>, dt[2]) :
        n \in {<<>>, <<"A", "7", "B", "0", "8">>}, dt \in {<<0, 0>>, <<1, 1>>}}
    \cup {Order(<<"o2">>, n, 0, CustC2, <<Item("p1", 1)>>, t) :
        n \in {<<>>, <<"A", "B">>}, t \in {0, 1}}

NumberNext ==
    \/ \E o \in NumberOrders : SoBegin("t1", o, MaxNumberCalls)
    \/ \E st \in NumberSettings : SaveSettings("t1", st, MaxNumberCalls)
    \/ SaveOrderStep("t1")
    \/ Return("t1")
    \/ Tick

NumberSpec == Init /\ [][NumberNext]_vars

\* DupSpec: save_order calls, invoked concurrently, that all leave the number
\* to the generator: order o1 of the stored customer c1 and order o2 of the new
\* customer c2.
DupOrders ==
    {Order(<<"o1">>, <<>>, 0, CustC1, <<Item("p1", 1)>>, 0),
     Order(<<"o2">>, <<>>, 0, CustC2, <<Item("p1", 1)>>, 0)}

DupNext ==
    \/ \E p \in Procs :
          \/ \E o \in DupOrders : SoBegin(p, o, MaxDupCalls)
          \/ SaveOrderStep(p)
          \/ Return(p)
    \/ Tick

DupSpec == Init /\ [][DupNext]_vars

\* ManageSpec: save_customer, merge_customers, delete_customer and
\* batch_delete_customers calls, each invoked when the one before has
\* returned, on a database that
\* holds two customers, the snapshot customer save_order stored for order o2
\* and up to two orders.  Customer c2 was saved with a blank name, an address
\* and a last purchase time; c1 has neither.  The orders were saved for c1, or
\* one for c1 and one for c2 or for a temp_ customer.
ManageCustomers ==
    InitCustomers
    @@ (<<"c2">> :> [name |-> <<" ">>, phone |-> <<"2">>, license_plate |-> <<>>,
                     address |-> Some(<<"S">>), last_purchase_at |-> Some(1),
                     created_at |-> 1, updated_at |-> 1])
    @@ (SnapshotId(<<"o2">>) :>
            CustomerRow([CustTemp EXCEPT !.id = SnapshotId(<<"o2">>)]))
StoredOrder(number, customer_id) ==
    [order_number |-> number, date |-> 0, customer_id |-> customer_id, created_at |-> 0]
ManageOrderTables ==
    LET o1 == <<"o1">> :> StoredOrder(<<"N", "1">>, <<"c1">>)
    IN {<<>>, o1,
        o1 @@ (<<"o2">> :> StoredOrder(<<"N", "2">>, <<"c1">>)),
        o1 @@ (<<"o2">> :> StoredOrder(<<"N", "2">>, <<"c2">>)),
        o1 @@ (<<"o2">> :> StoredOrder(<<"N", "2">>, SnapshotId(<<"o2">>)))}

ManageInit ==
    /\ customers = ManageCustomers
    /\ orders \in ManageOrderTables
    /\ order_items = <<>>
    /\ products = InitProducts
    /\ settings = DefaultSettings
    /\ foreign_keys \in BOOLEAN
    /\ unit_presets = InitUnitPresets
    /\ remark_presets = <<>>
    /\ mutex = <<>>
    /\ poisoned = FALSE
    /\ now = 1
    /\ procs = [p \in Procs |-> Idle]
    /\ calls = 0
    /\ deducted = [o \in OrderIds |-> 0]
    /\ last_gen = None

\* customers submitted to save_customer: c2 with the phone of c1 and of the
\* snapshot customer; c3 with that phone, a blank name and plate and an
\* address; c1 under a phone no row has; a temp_ customer under a phone no row
\* has; c4 with the phone of c2 and the plate c2 was submitted with
ManageSaves ==
    {CustC2,
     [Cust(<<"c3">>, <<" ">>, <<"1">>, <<" ">>) EXCEPT !.address = Some(<<"N">>)],
     Cust(<<"c1">>, <<"C">>, <<"9">>, <<>>),
     Cust(<<"temp_", "1">>, <<"T">>, <<"3">>, <<>>),
     Cust(<<"c4">>, <<"D">>, <<"2">>, <<"P">>)}
ManageMerges ==
    {<<<<"c1">>, <<"c2">>>>, <<<<"c2">>, <<"c1">>>>, <<<<"c1">>, <<"c1">>>>,
     <<<<"c9">>, <<"c9">>>>}
ManageDeletes == {<<"c1">>, <<"c2">>}
ManageBatches == {<<<<"c1">>, <<"c2">>>>}

ManageNext ==
    \/ \E c \in ManageSaves : ScBegin("t1", c, MaxManageCalls)
    \/ \E m \in ManageMerges : McBegin("t1", m[1], m[2], MaxManageCalls)
    \/ \E id \in ManageDeletes : DeleteCustomerBegin("t1", id, MaxManageCalls)
    \/ \E ids \in ManageBatches : BatchDeleteBegin("t1", ids, MaxManageCalls)
    \/ SaveCustomerStep("t1")
    \/ MergeCustomersStep("t1")
    \/ DeleteCustomersStep("t1")
    \/ Return("t1")
    \/ Tick

ManageSpec == ManageInit /\ [][ManageNext]_vars

\* ListSpec: save_customer, delete_customer, get_all_customers and
\* search_customers calls, one after the other, on the database of ManageSpec
\* with an order of c1 and an order of the snapshot customer.  The queries
\* are the empty one, a phone and a letter in either case.
ListInit ==
    /\ customers = ManageCustomers
    /\ orders = (<<"o1">> :> StoredOrder(<<"N", "1">>, <<"c1">>))
                 @@ (<<"o2">> :> StoredOrder(<<"N", "2">>, SnapshotId(<<"o2">>)))
    /\ order_items = <<>>
    /\ products = InitProducts
    /\ settings = DefaultSettings
    /\ foreign_keys \in BOOLEAN
    /\ unit_presets = InitUnitPresets
    /\ remark_presets = <<>>
    /\ mutex = <<>>
    /\ poisoned = FALSE
    /\ now = 1
    /\ procs = [p \in Procs |-> Idle]
    /\ calls = 0
    /\ deducted = [o \in OrderIds |-> 0]
    /\ last_gen = None

ListQueries == {<<>>, <<"1">>, <<"t">>}
\* the customers save_customer is given: those of ManageSpec and two whose ids
\* have the letters of a reserved prefix without its underscore
ListSaves ==
    ManageSaves
    \cup {Cust(<<"temple1">>, <<"E">>, <<"7">>, <<>>),
          Cust(<<"deleted-7">>, <<"F">>, <<"8">>, <<>>)}

ListNext ==
    \/ \E c \in ListSaves : ScBegin("t1", c, MaxListCalls)
    \/ \E id \in ManageDeletes : DeleteCustomerBegin("t1", id, MaxListCalls)
    \/ GetAllCustomers("t1", MaxListCalls)
    \/ \E q \in ListQueries : SearchCustomers("t1", q, MaxListCalls)
    \/ SaveCustomerStep("t1")
    \/ DcDelete("t1")
    \/ Return("t1")
    \/ Tick

ListSpec == ListInit /\ [][ListNext]_vars

-----------------------------------------------------------------------------
(* Further specifications: the mutex, twin submissions, repeated deletes,
   concurrent stock deductions *)

\* LockSpec: the commands of two concurrent invocations with every
\* acquisition and release of the mutex as a step of its own.  A repository
\* method is `let conn = self.conn.lock().unwrap();`, its statements on conn,
\* and the drop of the guard at the end of the method.
MaxLockCalls == 2

\* a lock() that does not wait for the holder
LockShared(p) ==
    /\ p \notin DOMAIN mutex
    /\ mutex' = (p :> procs[p]) @@ mutex

\* self.conn.lock(): the caller waits until no one holds the mutex
Lock(p) ==
    /\ DOMAIN mutex = {}
    /\ mutex' = (p :> procs[p])

\* the command on slot p reaches the lock() of its next repository call
Acquire(p) ==
    /\ procs[p].pc # "done"
    /\ procs[p].pc = "idle" => calls < MaxLockCalls
    /\ ~poisoned
    /\ Lock(p)
    /\ UNCHANGED <<db, foreign_keys, presets, poisoned, now, procs, calls, hist>>

\* p holds the guard and has not yet run the statements of the call
Holding(p) == p \in DOMAIN mutex /\ mutex[p] = procs[p]

\* the guard goes out of scope: at the end of the method, or as the panic
\* unwinds
Release(p) ==
    /\ p \in DOMAIN mutex
    /\ mutex[p] # procs[p]
    /\ mutex' = Drop(mutex, {p})
    /\ UNCHANGED <<db, foreign_keys, presets, poisoned, now, procs, calls, hist>>

LockOrders ==
    {Order(<<"o1">>, <<>>, 0, CustC1, <<Item("p1", 1)>>, 0),
     Order(<<"o2">>, U32MaxText, 0, CustC2, <<Item("p1", 2)>>, 0)}
LockMerges == {<<<<"c1">>, <<"c2">>>>}
LockDeletes == {<<"c1">>}

\* the statements of the call, run on the guard
Statements(p) ==
    /\ Holding(p)
    /\ \/ \E o \in LockOrders : SoBegin(p, o, MaxLockCalls)
       \/ \E m \in LockMerges : McBegin(p, m[1], m[2], MaxLockCalls)
       \/ \E id \in LockDeletes : DeleteCustomerBegin(p, id, MaxLockCalls)
       \/ SaveOrderStep(p)
       \/ MergeCustomersStep(p)
       \/ DcDelete(p)

\* the command returns once its guards are dropped
LockReturn(p) ==
    /\ p \notin DOMAIN mutex
    /\ Return(p)

LockNext ==
    \E p \in Procs :
       \/ Acquire(p)
       \/ Statements(p)
       \/ Release(p)
       \/ LockReturn(p)
       \/ PoisonedStep(p)

LockSpec == Init /\ [][LockNext]_vars

\* TwinSpec: save_customer calls of two concurrent invocations, for two new
\* ids that carry the same phone, which no stored row has.
MaxTwinCalls == 2
TwinCustomers ==
    {Cust(<<"c3">>, <<"X">>, <<"5">>, <<>>), Cust(<<"c4">>, <<"Y">>, <<"5">>, <<>>)}

TwinNext ==
    \/ \E p \in Procs :
          \/ \E c \in TwinCustomers : ScBegin(p, c, MaxTwinCalls)
          \/ SaveCustomerStep(p)
          \/ Return(p)
    \/ Tick

TwinSpec == Init /\ [][TwinNext]_vars

\* PurgeSpec: delete_customer calls of two concurrent invocations on the
\* stored customers and orders of ManageSpec, the same id again and again.
MaxPurgeCalls == 3

PurgeNext ==
    \/ \E p \in Procs :
          \/ \E id \in ManageDeletes : DeleteCustomerBegin(p, id, MaxPurgeCalls)
          \/ DcDelete(p)
          \/ Return(p)
    \/ Tick

PurgeSpec == ManageInit /\ [][PurgeNext]_vars

\* StockSpec: save_order calls of two concurrent invocations for two new
\* orders, o1 of the stored customer c1 with its number left to the generator
\* and o2 of the new customer c2 with the number Y, each with one item of the
\* tracked product p1, of which 2 are in stock.
MaxStockCalls == 2
StockOrders ==
    {Order(<<"o1">>, <<>>, 0, CustC1, <<Item("p1", q)>>, 0) : q \in {0, 1, 3}}
    \cup {Order(<<"o2">>, <<"Y">>, 0, CustC2, <<Item("p1", q)>>, 0) : q \in {1, 2}}

StockNext ==
    \/ \E p \in Procs :
          \/ \E o \in StockOrders : SoBegin(p, o, MaxStockCalls)
          \/ SaveOrderStep(p)
          \/ Return(p)
    \/ Tick

StockSpec == Init /\ [][StockNext]_vars

\* PresetSpec: the use-count commands of two concurrent invocations, on the
\* default unit preset u1, a unit preset id that is not stored, and a stored
\* remark preset r1; delete_unit_preset removes u1.
MaxPresetCalls == 3
PresetInit ==
    /\ customers = InitCustomers
    /\ orders = <<>>
    /\ order_items = <<>>
    /\ products = InitProducts
    /\ settings = DefaultSettings
    /\ foreign_keys \in BOOLEAN
    /\ unit_presets = InitUnitPresets
    /\ remark_presets = ("r1" :> [content |-> <<"R">>, type |-> <<"item">>,
                                   sort_order |-> 0, use_count |-> 0,
                                   created_at |-> 0, updated_at |-> 0])
    /\ mutex = <<>>
    /\ poisoned = FALSE
    /\ now = 1
    /\ procs = [p \in Procs |-> Idle]
    /\ calls = 0
    /\ deducted = [o \in OrderIds |-> 0]
    /\ last_gen = None

PresetUnits == {"u1", "u9"}
PresetRemarks == {"r1"}

PresetNext ==
    \/ \E p \in Procs :
          \/ \E id \in PresetUnits : IuBegin(p, id, MaxPresetCalls)
          \/ IuUpdate(p)
          \/ \E id \in PresetRemarks : IncrementRemarkUseCount(p, id, MaxPresetCalls)
          \/ DeleteUnitPreset(p, "u1", MaxPresetCalls)
          \/ Return(p)
    \/ Tick

PresetSpec == PresetInit /\ [][PresetNext]_vars

-----------------------------------------------------------------------------
(* Properties *)

\* slot p holds a save_order call, running or returned, with its locals
SoCall(p) ==
    /\ procs[p].pc # "idle"
    /\ procs[p].cmd = "save_order"
    /\ "gen" \in DOMAIN procs[p]
\* slot p holds a save_order call that returned Ok or Err
SoReturned(p) == SoCall(p) /\ procs[p].pc = "done"
\* the order_items rows of an order
ItemRows(order_id) == {k \in DOMAIN order_items : k[1] = order_id}

\* C1: in every reachable state, under any interleaving of save_order,
\* save_customer, merge_customers, delete_customer and batch_delete_customers,
\* the customer_id of every stored order is the id of a stored customer.
C1_OrdersReferToCustomers ==
    \A o \in DOMAIN orders : orders[o].customer_id \in DOMAIN customers

\* C2: no step leaves the stock of a tracked product with a stock value below
\* 0, whatever quantity an order asks for, and no step changes the stock of a
\* product that is not tracked or whose stock is null.
C2_StockNeverNegative ==
    [][\A id \in DOMAIN products :
          LET before == products[id]
              after == products'[id]
          IN IF before.track_stock = Some(1) /\ IsSome(before.stock)
             THEN IsSome(after.stock) /\ Unwrap(after.stock) >= 0
             ELSE after.stock = before.stock]_vars

\* a new order asked for 3 of p1 (stock 2), 1 of the untracked p2 and 1 of p3
\* (no stock value): p1 is at 0, p2 and p3 are as before
C2_Witness ==
    \E p \in Procs :
        /\ SoReturned(p) /\ procs[p].ok /\ ~procs[p].existing
        /\ procs[p].order.items = <<Item("p1", 3), Item("p2", 1), Item("p3", 1)>>
        /\ products["p1"].stock = Some(0)
        /\ products["p2"].stock = Some(2)
        /\ products["p3"].stock = None

\* C3: for every order id, at most one of the save_order calls carrying it
\* deducts stock, however the calls are ordered or interleaved, and a call on
\* the update path (its probe found the order) changes no product.
C3_DeductedOnce ==
    [][/\ \A o \in OrderIds : deducted'[o] <= 1
       /\ \A p \in Procs :
             (SoCall(p) /\ procs[p].existing /\ procs'[p] # procs[p])
                 => products' = products]_vars

\* a call with items went down the update path of an order whose stock was
\* deducted once
C3_Witness ==
    \E p \in Procs :
        /\ SoReturned(p) /\ procs[p].ok /\ procs[p].existing
        /\ Len(procs[p].order.items) > 0
        /\ deducted[procs[p].order.id] = 1

\* C4: when a save_order call for a new order has returned, the orders row and
\* every order_items row of the submitted order are stored, or none of them is.
C4_OrderAndItemsTogether ==
    \A p \in Procs :
        (SoReturned(p) /\ procs[p].stage # "so_customer_insert" /\ ~procs[p].existing)
            => LET o == procs[p].order
               IN \/ /\ o.id \in DOMAIN orders
                     /\ Cardinality(ItemRows(o.id)) = Len(o.items)
                  \/ /\ o.id \notin DOMAIN orders
                     /\ ItemRows(o.id) = {}

\* the stored customers other than id whose phone or plate is that of c
SameIdentity(c, id) ==
    {x \in DOMAIN customers \ {id} :
        \/ c.phone # <<>> /\ customers[x].phone = c.phone
        \/ c.license_plate # <<>> /\ customers[x].license_plate = c.license_plate}

C6_LastPurchaseSet ==
    \A p \in Procs :
        (SoReturned(p) /\ procs[p].ok)
            => LET cid == procs[p].order.customer_id
               IN IF StartsWith(cid, "order_customer_")
                  THEN procs[p].touched_at = None
                  ELSE /\ IsSome(procs[p].touched_at)
                       /\ cid \in DOMAIN customers
                       /\ customers[cid].last_purchase_at = procs[p].touched_at
                       /\ customers[cid].updated_at = Unwrap(procs[p].touched_at)

\* the value of the last maximal digit run of a text, plus 1
LastRunPlusOne(txt) ==
    LET runs == DigitRuns(txt)
        run == SubSeq(txt, runs[Len(runs)][1], runs[Len(runs)][2])
    IN NumInc(StripZeros([i \in 1..Len(run) |-> DigitVal(run[i])]))

\* C7: the sequence value the generator computes is the value of the last
\* maximal digit run of the reference order's number plus 1 whenever that
\* number has a digit run, and 1 only when there is no reference order or its
\* number has no digit.
C7_LastRunPlusOne ==
    \A p \in Procs :
        (SoCall(p) /\ IsSome(procs[p].gen) /\ IsSome(Unwrap(procs[p].gen).next_seq))
            => LET g == Unwrap(procs[p].gen)
               IN Unwrap(g.next_seq) =
                     IF ~IsSome(g.last_number) \/ DigitRuns(Unwrap(g.last_number)) = <<>>
                     THEN <<1>>
                     ELSE LastRunPlusOne(Unwrap(g.last_number))

\* the orders the generator looks at: those dated today under daily reset, all
\* otherwise
Window(st, ords, t) ==
    IF st.order_number_reset_daily
    THEN {o \in DOMAIN ords : ords[o].date = t \div DayLen}
    ELSE DOMAIN ords

\* slot p takes the step that calls the generator and gets a number
Generates(p) == procs[p].pc = "so_number" /\ procs'[p].pc = "so_customer"

\* C8: the reference order of a generator call is an order of the greatest
\* created_at among the orders dated today when daily reset is on, and among
\* all orders otherwise; there is none when that set is empty.
C8_ReferenceOrder ==
    [][\A p \in Procs :
          (Generates(p) /\ HasSeq(procs[p].settings.order_number_format))
              => LET window == Window(procs[p].settings, orders, now)
                     ref == Unwrap(procs'[p].gen).last_number
                 IN IF window = {} THEN ref = None
                    ELSE \E o \in window :
                            /\ \A x \in window : orders[x].created_at <= orders[o].created_at
                            /\ ref = Some(orders[o].order_number)]_vars

\* under daily reset the generator took the order dated today as its
\* reference although an order of another day has the greater created_at
C8_Witness ==
    \E p \in Procs :
        /\ SoCall(p) /\ procs[p].pc = "so_customer" /\ IsSome(procs[p].gen)
        /\ procs[p].settings.order_number_reset_daily
        /\ \E a, b \in DOMAIN orders :
              /\ orders[a].date = now \div DayLen
              /\ orders[b].date # now \div DayLen
              /\ orders[b].created_at > orders[a].created_at
              /\ orders[a].order_number # orders[b].order_number
              /\ Unwrap(procs[p].gen).last_number = Some(orders[a].order_number)

OneLatest(st, ords, t) ==
    LET window == Window(st, ords, t)
    IN Cardinality({o \in window :
                      \A x \in window : ords[x].created_at <= ords[o].created_at}) <= 1

C10_KeepsSuppliedNumber ==
    \A p \in Procs :
        (SoCall(p) /\ procs[p].arg.order_number # <<>>)
            => /\ procs[p].pc # "so_number"
               /\ procs[p].gen = None
               /\ (procs[p].pc = "done" /\ procs[p].ok)
                     => /\ procs[p].value = procs[p].arg.order_number
                        /\ procs[p].arg.id \in DOMAIN orders
                        /\ orders[procs[p].arg.id].order_number = procs[p].arg.order_number

\* an order submitted under the number X was stored and X returned, once by
\* insert and once by update
C10_Witness ==
    \E p \in Procs :
        /\ SoReturned(p) /\ procs[p].ok /\ procs[p].existing
        /\ procs[p].arg.order_number = <<"X">>
        /\ procs[p].value = <<"X">>
        /\ orders[procs[p].arg.id].order_number = <<"X">>

\* slot p is about to run the INSERT of a new order whose number a stored
\* order holds
NumberTaken(p) ==
    /\ SoCall(p)
    /\ procs[p].pc = "so_persist"
    /\ ~procs[p].existing
    /\ \E x \in DOMAIN orders : orders[x].order_number = procs[p].order.order_number
\* the message of the UNIQUE constraint on order_number
NumberError == <<"UNIQUE constraint failed: orders.order_number">>
\* the stages of save_order up to the insert or update of the order
BeforeDeduct == {"so_number", "so_customer", "so_customer_insert", "so_probe", "so_persist"}

\* C11 as stated: the insert that fails on the uniqueness of order_number ends
\* the call with that error and the number it had, no orders row of the
\* submitted id is stored then, the call changed no stock, and the customers
\* row the call inserted is stored.
C11_NoRowOfSubmittedId ==
    [][\A p \in Procs :
          /\ (NumberTaken(p) /\ procs'[p] # procs[p])
                => /\ procs'[p].pc = "done" /\ ~procs'[p].ok
                   /\ procs'[p].value = NumberError
                   /\ procs'[p].order = procs[p].order
                   /\ procs'[p].order.id \notin DOMAIN orders'
                   /\ order_items' = order_items
                   /\ customers' = customers
                   /\ ~procs[p].customer_exists
                         => procs[p].order.customer_id \in DOMAIN customers'
          /\ (SoCall(p) /\ procs[p].pc \in BeforeDeduct /\ procs'[p] # procs[p])
                => products' = products]_vars

\* C11: the insert that fails on the uniqueness of order_number ends the call
\* with that error and the number it had (no renumbering, no retry); the step
\* writes no orders row and no order_items row, so a row of the submitted id
\* is stored only when another call stored it; the call changed no stock; the
\* customers row the call inserted is stored.
C11_FailedInsertWritesNothing ==
    [][\A p \in Procs :
          /\ (NumberTaken(p) /\ procs'[p] # procs[p])
                => /\ procs'[p].pc = "done" /\ ~procs'[p].ok
                   /\ procs'[p].value = NumberError
                   /\ procs'[p].order = procs[p].order
                   /\ orders' = orders
                   /\ order_items' = order_items
                   /\ customers' = customers
                   /\ ~procs[p].customer_exists
                         => procs[p].order.customer_id \in DOMAIN customers'
          /\ (SoCall(p) /\ procs[p].pc \in BeforeDeduct /\ procs'[p] # procs[p])
                => products' = products]_vars

\* two concurrent calls generated the same number for two orders; this one
\* inserted its customer, lost the race and returned the error: its customer
\* is stored, its order is not
C11_Witness ==
    \E p \in Procs :
        /\ SoReturned(p) /\ ~procs[p].ok
        /\ procs[p].stage = "so_persist"
        /\ procs[p].value = NumberError
        /\ IsSome(procs[p].gen)
        /\ ~procs[p].customer_exists
        /\ procs[p].order.customer_id \in DOMAIN customers
        /\ procs[p].order.id \notin DOMAIN orders
        /\ \E x \in DOMAIN orders : orders[x].order_number = procs[p].order.order_number

\* C12: after a successful save_order of an order whose customer_id starts
\* with temp_, the stored order's customer_id and the embedded customer's id
\* are order_customer_<order.id> and a customers row of that id is stored,
\* inserted from the embedded customer when the call found none, whatever
\* stored customer has the same phone or plate; no customers row has an id
\* that starts with temp_.
C12_TempBecomesSnapshot ==
    /\ \A id \in DOMAIN customers : ~StartsWith(id, "temp_")
    /\ \A p \in Procs :
          (SoReturned(p) /\ procs[p].ok /\ StartsWith(procs[p].arg.customer_id, "temp_"))
              => LET sid == SnapshotId(procs[p].arg.id)
                 IN /\ orders[procs[p].arg.id].customer_id = sid
                    /\ procs[p].order.customer_id = sid
                    /\ procs[p].order.customer.id = sid
                    /\ sid \in DOMAIN customers
                    /\ ~procs[p].customer_exists
                          => customers[sid] =
                                CustomerRow([procs[p].arg.customer EXCEPT !.id = sid])

\* the order of a temp_ customer whose phone is that of the stored c1 was
\* saved: the order refers to its snapshot customer, stored beside c1
C12_Witness ==
    \E p \in Procs :
        /\ SoReturned(p) /\ procs[p].ok /\ ~procs[p].customer_exists
        /\ procs[p].arg.customer = CustTemp
        /\ SameIdentity(CustTemp, CustTemp.id) # {}
        /\ orders[procs[p].arg.id].customer_id = SnapshotId(procs[p].arg.id)
        /\ SnapshotId(procs[p].arg.id) \in DOMAIN customers

\* slot p holds a delete_customer call that returned Ok
DeleteReturned(p) ==
    /\ procs[p].pc = "done" /\ procs[p].cmd = "delete_customer" /\ procs[p].ok

\* C13: after delete_customer(id) succeeds, every order that referred to id
\* when the call was invoked is stored with customer_id deleted_<id>, a
\* customers row deleted_<id> is stored, no customers row of id is stored, and
\* every other order is stored as it was.
C13_DeleteRelinks ==
    \A p \in Procs :
        DeleteReturned(p) =>
            LET id == procs[p].arg
                was == procs[p].before.orders
            IN /\ PlaceholderId(id) \in DOMAIN customers
               /\ id \notin DOMAIN customers
               /\ DOMAIN orders = DOMAIN was
               /\ \A o \in DOMAIN was :
                     IF was[o].customer_id = id
                     THEN orders[o] = [was[o] EXCEPT !.customer_id = PlaceholderId(id)]
                     ELSE orders[o] = was[o]

\* c1 was deleted while two orders referred to it: both refer to deleted_c1
C13_Witness ==
    \E p \in Procs :
        /\ DeleteReturned(p)
        /\ procs[p].arg = <<"c1">>
        /\ Cardinality({o \in DOMAIN procs[p].before.orders :
                           procs[p].before.orders[o].customer_id = <<"c1">>}) = 2
        /\ \A o \in DOMAIN orders : orders[o].customer_id = PlaceholderId(<<"c1">>)
        /\ <<"c1">> \notin DOMAIN customers

\* slot p holds a merge_customers call that returned Ok
MergeReturned(p) ==
    /\ procs[p].pc = "done" /\ procs[p].cmd = "merge_customers" /\ procs[p].ok

\* C14: after merge_customers(a, b) succeeds, a is not b, no customers row of
\* a is stored, every order that referred to a when the call was invoked is
\* stored with customer_id b, and every other order is stored as it was.
C14_MergeRelinks ==
    \A p \in Procs :
        MergeReturned(p) =>
            LET a == procs[p].arg.source_id
                b == procs[p].arg.target_id
                was == procs[p].before.orders
            IN /\ a # b
               /\ ~CustomerExists(a)
               /\ DOMAIN orders = DOMAIN was
               /\ \A o \in DOMAIN was :
                     IF was[o].customer_id = a
                     THEN orders[o] = [was[o] EXCEPT !.customer_id = b]
                     ELSE orders[o] = was[o]

\* c1 was merged into c2 while one order referred to c1 and another to a
\* snapshot customer: the first refers to c2, the second is as it was
C14_Witness ==
    \E p \in Procs :
        /\ MergeReturned(p)
        /\ procs[p].arg = [source_id |-> <<"c1">>, target_id |-> <<"c2">>]
        /\ <<"c1">> \notin DOMAIN customers
        /\ \E x, y \in DOMAIN orders :
              /\ procs[p].before.orders[x].customer_id = <<"c1">>
              /\ orders[x].customer_id = <<"c2">>
              /\ orders[y].customer_id = SnapshotId(<<"o2">>)

\* slot p is invoked with merge_customers(x, x)
MergeWithItself(p) ==
    /\ procs[p].pc = "idle"
    /\ procs'[p].pc # "idle"
    /\ procs'[p].cmd = "merge_customers"
    /\ procs'[p].arg.source_id = procs'[p].arg.target_id

\* C15: merge_customers(x, x) returns an error at once, whether a customers
\* row of x is stored or not, and changes no table.
C15_MergeWithItselfFails ==
    [][\A p \in Procs :
          MergeWithItself(p) =>
              /\ procs'[p].pc = "done"
              /\ ~procs'[p].ok
              /\ procs'[p].value = <<"same customer">>
              /\ db' = db]_vars

\* merge_customers(c1, c1) returned its error and the row of c1 is stored
C15_Witness ==
    \E p \in Procs :
        /\ procs[p].pc = "done" /\ procs[p].cmd = "merge_customers"
        /\ procs[p].arg = [source_id |-> <<"c1">>, target_id |-> <<"c1">>]
        /\ ~procs[p].ok
        /\ <<"c1">> \in DOMAIN customers

\* slot p holds a merge_customers call that has loaded the source and has not
\* yet deleted it
MidMerge(p) == procs[p].pc \in {"mc_target", "mc_update", "mc_relink"}

\* C16: from a merge's load of the source to its deletion of the source row
\* no other command reads or writes the database: while a merge waits between
\* two of its steps, the only step another slot takes is the return of a
\* result.
C16_MergeAtomic ==
    [][\A p \in Procs :
          (MidMerge(p) /\ procs'[p] = procs[p])
              => /\ db' = db
                 /\ \A q \in Procs \ {p} :
                       procs'[q] # procs[q] => procs'[q] = Idle]_vars

\* C17: after merge_customers(source, target) succeeds, the stored target row
\* has the target's former name, phone and plate where these are not blank
\* and the source's where they are, the target's former address and
\* last_purchase_at where present and the source's where not, and the
\* target's former created_at.
C17_MergedFields ==
    \A p \in Procs :
        MergeReturned(p) =>
            LET src == procs[p].before.customers[procs[p].arg.source_id]
                tgt == procs[p].before.customers[procs[p].arg.target_id]
                row == customers[procs[p].arg.target_id]
            IN /\ row.name = IF Trim(tgt.name) # <<>> THEN tgt.name ELSE src.name
               /\ row.phone = IF Trim(tgt.phone) # <<>> THEN tgt.phone ELSE src.phone
               /\ row.license_plate = IF Trim(tgt.license_plate) # <<>>
                                      THEN tgt.license_plate ELSE src.license_plate
               /\ row.address = IF IsSome(tgt.address) THEN tgt.address ELSE src.address
               /\ row.last_purchase_at = IF IsSome(tgt.last_purchase_at)
                                         THEN tgt.last_purchase_at
                                         ELSE src.last_purchase_at
               /\ row.created_at = tgt.created_at

\* slot p holds a save_customer call that returned
SaveReturned(p) == procs[p].pc = "done" /\ procs[p].cmd = "save_customer"
\* the rows of custs whose phone or plate is the non-empty phone or plate of c
Matches(custs, c) ==
    {id \in DOMAIN custs :
        \/ c.phone # <<>> /\ custs[id].phone = c.phone
        \/ c.license_plate # <<>> /\ custs[id].license_plate = c.license_plate}
\* the incoming text when it is not blank, trimmed, and the stored one otherwise
Incoming(text, stored) == IF Trim(text) # <<>> THEN Trim(text) ELSE stored

\* C18: a save_customer whose customer's non-empty phone or plate is that of
\* a stored row succeeds by updating one such row under its id and stores no
\* row under a new id: name, phone and plate are the incoming ones where not
\* blank after trimming and the stored ones otherwise, the address is the
\* incoming one when present and the stored one otherwise, last_purchase_at
\* and created_at are the stored ones.
C18_MergeIntoMatch ==
    \A p \in Procs :
        (SaveReturned(p) /\ Matches(procs[p].before.customers, procs[p].arg) # {})
            => LET c == procs[p].arg
                   id == procs[p].existing.id
                   old == procs[p].before.customers[id]
                   row == customers[id]
               IN /\ procs[p].ok /\ procs[p].matched
                  /\ id \in Matches(procs[p].before.customers, c)
                  /\ DOMAIN customers = DOMAIN procs[p].before.customers
                  /\ \A x \in DOMAIN customers \ {id} :
                        customers[x] = procs[p].before.customers[x]
                  /\ row.name = Incoming(c.name, old.name)
                  /\ row.phone = Incoming(c.phone, old.phone)
                  /\ row.license_plate = Incoming(c.license_plate, old.license_plate)
                  /\ row.address = IF IsSome(c.address) THEN c.address ELSE old.address
                  /\ row.last_purchase_at = old.last_purchase_at
                  /\ row.created_at = old.created_at

\* customer c3 was submitted with the phone of c1, a blank name and plate and
\* an address: c1 has its name and plate and the new address, no row c3 is
\* stored
C18_Witness ==
    \E p \in Procs :
        /\ SaveReturned(p) /\ procs[p].ok /\ procs[p].matched
        /\ procs[p].arg.id = <<"c3">>
        /\ procs[p].existing.id = <<"c1">>
        /\ customers[<<"c1">>].name = <<"A">>
        /\ customers[<<"c1">>].address = Some(<<"N">>)
        /\ <<"c3">> \notin DOMAIN customers

\* an id of a temp_ customer, of an order's snapshot customer or of a
\* placeholder of a deleted customer
Reserved(id) ==
    \/ StartsWith(id, "temp_")
    \/ StartsWith(id, "order_customer_")
    \/ StartsWith(id, "deleted_")

\* C19: the row save_customer matched by phone or plate, and merged the
\* incoming customer into, never has an id that starts with temp_,
\* order_customer_ or deleted_, and no other matching row of an ordinary id
\* has a greater updated_at.
C19_MatchIsOrdinary ==
    \A p \in Procs :
        (SaveReturned(p) /\ procs[p].matched)
            => LET was == procs[p].before.customers
                   id == procs[p].existing.id
               IN /\ ~Reserved(id)
                  /\ \A x \in Matches(was, procs[p].arg) :
                        ~Reserved(x) => was[x].updated_at <= was[id].updated_at

\* slot p holds a get_all_customers or search_customers call that returned
ListReturned(p) ==
    /\ procs[p].pc = "done"
    /\ procs[p].cmd \in {"get_all_customers", "search_customers"}

\* C20: whatever commands ran before, get_all_customers and search_customers
\* return no row whose id starts with temp_, order_customer_ or deleted_.
C20_ListingsHideReserved ==
    \A p \in Procs :
        ListReturned(p) => \A id \in procs[p].value : ~Reserved(id)

\* a temp_ row, a snapshot row and a placeholder row are stored and found by
\* get_by_id, and get_all_customers returned the ordinary rows only
C20_Witness ==
    \E p \in Procs :
        /\ ListReturned(p)
        /\ procs[p].cmd = "get_all_customers"
        /\ procs[p].value # {}
        /\ CustomerExists(<<"temp_", "1">>)
        /\ CustomerExists(SnapshotId(<<"o2">>))
        /\ CustomerExists(PlaceholderId(<<"c1">>))
        /\ procs[p].value = {id \in DOMAIN customers : ~Reserved(id)}


\* C21: at most one command holds the mutex at any moment, and every step
\* that runs statements of a command (every step of a command other than its
\* return and the panic of lock().unwrap() on a poisoned mutex), hence every
\* change of the database, is taken by the one holder of the mutex, which
\* keeps it over the step.
C21_LockSerializes ==
    /\ [](Cardinality(DOMAIN mutex) <= 1)
    /\ [][\A p \in Procs :
            (procs'[p] # procs[p] /\ procs[p].pc # "done" /\ ~poisoned)
               => (DOMAIN mutex = {p} /\ mutex' = mutex)]_vars
    /\ [][db' # db => \E p \in Procs : DOMAIN mutex = {p} /\ procs'[p] # procs[p]]_vars

\* one save_order holds the mutex for a deduct_stock while the other has its
\* own deduct_stock to run
C21_Witness ==
    \E p, q \in Procs :
       /\ p # q
       /\ Holding(p)
       /\ procs[p].pc = "so_deduct"
       /\ procs[q].pc = "so_deduct"
       /\ q \notin DOMAIN mutex


\* C22: no step of a save_order whose order id has a row in orders (the
\* update path) changes order_items: no item row is added, removed or
\* modified, whatever item list the call submits.
C22_UpdateKeepsItems ==
    [][\A p \in Procs :
          LET pr == IF procs[p].pc = "idle" THEN procs'[p] ELSE procs[p]
          IN (/\ procs'[p] # procs[p]
              /\ pr.pc # "idle"
              /\ pr.cmd = "save_order"
              /\ pr.arg.id \in DOMAIN orders)
                => order_items' = order_items]_vars

\* a save_order took the update path and returned Ok with a non-empty item
\* list for an order that has no stored item
C22_Witness ==
    \E p \in Procs :
       /\ SoReturned(p)
       /\ procs[p].ok
       /\ procs[p].existing
       /\ Len(procs[p].arg.items) > 0
       /\ ItemRows(procs[p].arg.id) = {}


\* C23: a save_customer that is invoked when a stored row has its non-empty
\* phone adds no customers row at any of its steps, so submissions of the
\* same phone that run one after the other leave one row; two rows of the
\* same phone arise only when the second call's find_by_identity ran before
\* the first call's insert (the witness).
C23_LaterSubmissionAddsNoRow ==
    [][\A p \in Procs :
          (/\ procs[p].pc \notin {"idle", "done"}
           /\ procs[p].cmd = "save_customer"
           /\ procs'[p] # procs[p]
           /\ Matches(procs[p].before.customers, procs[p].arg) # {})
             => DOMAIN customers' = DOMAIN customers]_vars

\* both calls passed the no-match check and both inserted: two ordinary rows
\* with different ids share the phone
C23_Witness ==
    /\ \A c \in TwinCustomers :
          /\ c.id \in DOMAIN customers
          /\ customers[c.id].phone = c.phone
          /\ ~Reserved(c.id)
    /\ \E p, q \in Procs :
          /\ p # q
          /\ SaveReturned(p) /\ procs[p].ok /\ procs[p].stage = "sc_insert"
          /\ SaveReturned(q) /\ procs[q].ok /\ procs[q].stage = "sc_insert"
          /\ procs[p].arg.id # procs[q].arg.id
          /\ procs[p].arg.phone = procs[q].arg.phone


\* C24: among delete_customer calls, sequential or concurrent, the row
\* deleted_<id> is stored from the first step of the first delete_customer(id)
\* on, no later step removes it or changes any of its fields, and every call
\* returns Ok.
C24_PlaceholderOnce ==
    /\ [](\A p \in Procs :
            (procs[p].pc # "idle" /\ procs[p].cmd = "delete_customer")
               => /\ PlaceholderId(procs[p].arg) \in DOMAIN customers
                  /\ procs[p].pc = "done" => procs[p].ok)
    /\ [][\A id \in ManageDeletes :
            PlaceholderId(id) \in DOMAIN customers
               => /\ PlaceholderId(id) \in DOMAIN customers'
                  /\ customers'[PlaceholderId(id)] = customers[PlaceholderId(id)]]_vars

\* a delete_customer invoked when the placeholder of its id was stored, at a
\* later time than the placeholder's, has returned
C24_Witness ==
    \E p \in Procs :
       /\ DeleteReturned(p)
       /\ procs[p].cmd = "delete_customer"
       /\ PlaceholderId(procs[p].arg) \in DOMAIN procs[p].before.customers
       /\ customers[PlaceholderId(procs[p].arg)].created_at < now


\* C25: with a pattern that has a sequence token, every save_order of
\* sequential calls that submits a new order id with an empty order number
\* returns Ok, with a number no other stored order has, whatever date and
\* created_at the order carries.
C25_GeneratedNumbersSucceed ==
    \A p \in Procs :
       (/\ SoReturned(p)
        /\ procs[p].arg.order_number = <<>>
        /\ ~procs[p].existing
        /\ IsSome(procs[p].gen)
        /\ HasSeq(settings.order_number_format))
          => /\ procs[p].ok
             /\ \A x \in DOMAIN orders :
                   orders[x].order_number = procs[p].value => x = procs[p].arg.id


\* C26: no step of a save_order changes the name, the phone, the license
\* plate or the address of a stored customer, whatever customer the order
\* embeds.
C26_SaveOrderKeepsCustomerFields ==
    [][\A p \in Procs :
          (/\ procs[p].pc \notin {"idle", "done"}
           /\ procs[p].cmd = "save_order"
           /\ procs'[p] # procs[p])
             => \A id \in DOMAIN customers :
                   /\ id \in DOMAIN customers'
                   /\ customers'[id].name = customers[id].name
                   /\ customers'[id].phone = customers[id].phone
                   /\ customers'[id].license_plate = customers[id].license_plate
                   /\ customers'[id].address = customers[id].address]_vars


\* C27: every invoked command that ends returns a result or an error to its
\* caller; a command whose task panicked returns neither.
C27_EveryCommandReturns ==
    \A p \in Procs : procs[p].pc = "done" => procs[p].value # <<"panic">>


LiteralPrefix(id, prefix) ==
    /\ Len(IdText(id)) >= Len(Chars(prefix))
    /\ SubSeq(IdText(id), 1, Len(Chars(prefix))) = Chars(prefix)

\* C29: get_all_customers returns every stored row whose id does not begin
\* with the literal text temp_, order_customer_ or deleted_; ids such as
\* temple1 and deleted-7 are returned.
C29_ListsEveryOrdinary ==
    \A p \in Procs :
        (ListReturned(p) /\ procs[p].cmd = "get_all_customers")
            => \A id \in DOMAIN customers :
                  (/\ ~LiteralPrefix(id, "temp_")
                   /\ ~LiteralPrefix(id, "order_customer_")
                   /\ ~LiteralPrefix(id, "deleted_"))
                     => id \in procs[p].value


\* C30: a successful increment_unit_preset_use_count(id) on a stored unit
\* preset raises the stored use_count of the preset by exactly 1.
C30_UnitUseCountRaised ==
    [][\A p \in Procs :
          (/\ procs[p].pc = "iu_update"
           /\ procs'[p].pc = "done"
           /\ procs'[p].ok
           /\ procs[p].arg \in DOMAIN unit_presets)
             => /\ procs[p].arg \in DOMAIN unit_presets'
                /\ unit_presets'[procs[p].arg].use_count
                      = unit_presets[procs[p].arg].use_count + 1]_vars

=============================================================================
